---- MODULE Spec2Model ----
(***************************************************************************)
(* Execution kernel of the Attractor engine (kilroy): the class-gated      *)
(* retry gate (executeWithRetry / shouldRetryOutcome), the main traversal  *)
(* with loop-restart policy and deterministic failure cycle breaker, the   *)
(* branch traversal runSubgraphUntil, progress recording (appendProgress)  *)
(* with branch-to-parent forwarding, the stall watchdog and terminal       *)
(* finalization.                                                           *)
(***************************************************************************)
EXTENDS Integers, Sequences, FiniteSets, TLC

\* ------------------------------------------------------------------ bounds

\* Largest default_max_retry / max_retries graph attribute explored.
MaxRetries == 2
\* Largest max_restarts graph attribute explored.
MaxRestartsCfg == 4
\* Cap on node executions of one traversal (keeps cyclic graphs finite).
MaxSteps == 12
\* Last instant of the discrete clock.
MaxTime == 3
\* Attempts of the codergen stage followed in the heartbeat runs, and
\* heartbeats one attempt's goroutine may emit.
MaxStageAttempts == 2
MaxHeartbeats == 2

\* --------------------------------------------------------- program constants

\* restart_signature_limit default.
RestartSignatureLimit == 3
\* stall_timeout, in clock ticks.
StallTimeout == 2

\* retry.backoff.initial_delay_ms of the retry-sleep watchdog test, in ticks:
\* longer than stall_timeout.
BackoffDelay == 3

\* ------------------------------------------------------------ outcome model

\* Count kept in a map with a dynamic domain (a Go map[string]int).
Get(m, k) == IF k \in DOMAIN m THEN m[k] ELSE 0

Put(m, k, v) == [x \in DOMAIN m \cup {k} |-> IF x = k THEN v ELSE m[x]]

Range(q) == {q[i] : i \in DOMAIN q}

StatusSuccess == "success"
StatusPartialSuccess == "partial_success"
StatusRetry == "retry"
StatusFail == "fail"
StatusSkipped == "skipped"

failureClassTransientInfra == "transient_infra"
failureClassDeterministic == "deterministic"
failureClassCanceled == "canceled"

NoUpdate == "<none>"

\* runtime.Outcome: status, failure_reason, preferred_label, meta.failure_class,
\* meta.failure_signature (hint) and the failure_class entry of context_updates.
Outcome(st, cls, rsn, hint, cu) ==
    [status |-> st, class |-> cls, reason |-> rsn, label |-> "",
     sig_hint |-> hint, cu_class |-> cu]

NoOutcome == Outcome("", "", "", "", NoUpdate)

OutSuccess == Outcome(StatusSuccess, "", "", "", NoUpdate)

\* Outcomes a scripted / codergen backend may return.  Every fail or retry
\* outcome carries a non-empty failure_reason (data-model invariant 3).
BackendOutcomes ==
    { OutSuccess,
      Outcome(StatusPartialSuccess, "", "", "", NoUpdate),
      Outcome(StatusSkipped, "", "", "", NoUpdate),
      Outcome(StatusFail, failureClassTransientInfra, "r1", "", failureClassTransientInfra),
      Outcome(StatusFail, failureClassTransientInfra, "r2", "", failureClassTransientInfra),
      Outcome(StatusFail, failureClassDeterministic, "r1", "", failureClassDeterministic),
      Outcome(StatusFail, failureClassDeterministic, "R1", "", failureClassDeterministic),
      Outcome(StatusFail, failureClassDeterministic, "r2", "h1", failureClassDeterministic),
      Outcome(StatusFail, failureClassCanceled, "r1", "", failureClassCanceled),
      Outcome(StatusFail, "", "r1", "", NoUpdate),
      Outcome(StatusFail, "bogus", "r1", "", NoUpdate),
      Outcome(StatusRetry, failureClassTransientInfra, "r1", "", failureClassTransientInfra),
      Outcome(StatusRetry, failureClassDeterministic, "r1", "", failureClassDeterministic),
      Outcome(StatusRetry, "", "r1", "", NoUpdate) }

\* Exit codes of a tool command: false(1) never exits with 0.
ToolExitCodes(cmd) == IF cmd = "false" THEN {1} ELSE {0, 1}

\* Failure class of a tool command that exits with a non-zero code, as the
\* engine's tests fix it: the failure of the command false is retried by the
\* gate, which retries the class transient_infra only; the failures of the
\* other commands are deterministic.
ToolFailureClass(cmd) ==
    IF cmd = "false" THEN failureClassTransientInfra ELSE failureClassDeterministic

\* Tool handler: success iff the command exits 0, failure otherwise.
ToolOutcome(cmd, exitCode) ==
    IF exitCode = 0
    THEN OutSuccess
    ELSE Outcome(StatusFail, ToolFailureClass(cmd), "exit status 1", "",
                 ToolFailureClass(cmd))

\* Outcomes of the scripted backend of a fan-out branch.
BranchOutcomes ==
    { OutSuccess,
      Outcome(StatusFail, failureClassTransientInfra, "r1", "", failureClassTransientInfra),
      Outcome(StatusFail, failureClassDeterministic, "r1", "", failureClassDeterministic) }

\* ------------------------------------------------------------ failure policy

\* Hint carried by the outcome: meta.failure_class, else the failure_class
\* context update.
readFailureClassHint(out) ==
    IF out.class # "" THEN out.class
    ELSE IF out.cu_class # NoUpdate THEN out.cu_class
    ELSE ""

classifyFailureClass(out) ==
    IF out.status \notin {StatusFail, StatusRetry} THEN "" ELSE readFailureClassHint(out)

\* Fail-closed normalisation: anything but a known class is deterministic.
normalizedFailureClassOrDefault(raw) ==
    IF raw \in {failureClassTransientInfra, failureClassDeterministic, failureClassCanceled}
    THEN raw
    ELSE failureClassDeterministic

\* Fail-open: every failure whose class is not deterministic is retried.
shouldRetryOutcome_failOpen(out, failureClass) ==
    /\ out.status \in {StatusFail, StatusRetry}
    /\ failureClass # failureClassDeterministic

\* No failure is retried.
shouldRetryOutcome_never(out, failureClass) == FALSE

shouldRetryOutcome_anyClass(out, failureClass) ==
    out.status \in {StatusFail, StatusRetry}

shouldRetryOutcome(out, failureClass) ==
    IF out.status # StatusFail /\ out.status # StatusRetry
    THEN FALSE
    ELSE normalizedFailureClassOrDefault(failureClass) = failureClassTransientInfra

canRetry_noBudget(attempt, maxAttempts, out, failureClass) ==
    shouldRetryOutcome(out, failureClass)

\* executeWithRetry's retry condition.
canRetry(attempt, maxAttempts, out, failureClass) ==
    attempt < maxAttempts /\ shouldRetryOutcome(out, failureClass)

Lower(s) == IF s = "R1" THEN "r1" ELSE s

\* Key of the restart / cycle circuit breakers: the outcome's signature hint,
\* else node|class|lowercased reason.
restartFailureSignature(nodeID, out, failureClass) ==
    IF out.sig_hint # ""
    THEN <<out.sig_hint>>
    ELSE <<nodeID, normalizedFailureClassOrDefault(failureClass), Lower(out.reason)>>

isFailureLoopRestartOutcome(out) == out.status \in {StatusFail, StatusRetry}

\* -------------------------------------------------------------------- graphs

\* One clause of an edge condition: lhs OP rhs, OP one of "=" and "!=".
Clause(k, o, v) == [key |-> k, op |-> o, val |-> v]

Edge(f, t, c, lr) == [from |-> f, to |-> t, condition |-> c, loop_restart |-> lr]

OutcomeIs(st) == <<Clause("outcome", "=", st)>>

\* Graphs run by the main loop alone, and the graph with a fan-out.
GraphNames == {"retrygate", "cycle", "failedge", "restart", "recovery"}

ParallelGraphNames == {"parallel"}

\* start -> r -> exit, r driven by a scripted handler.
RetryGateGraph ==
    [nodes |-> {"start", "r", "exit"},
     type |-> [n \in {"start", "r", "exit"} |->
                 IF n = "start" THEN "start" ELSE IF n = "exit" THEN "exit" ELSE "codergen"],
     edges |-> << Edge("start", "r", <<>>, FALSE), Edge("r", "exit", <<>>, FALSE) >>,
     retry_target |-> "", fallback_retry_target |-> ""]

\* start -> fail -> exit [outcome=success], fail a tool node running false,
\* with a backoff longer than the stall timeout.
StallSleepGraph ==
    [nodes |-> {"start", "fail", "exit"},
     type |-> [n \in {"start", "fail", "exit"} |->
                 IF n = "start" THEN "start" ELSE IF n = "exit" THEN "exit" ELSE "tool"],
     edges |-> << Edge("start", "fail", <<>>, FALSE),
                  Edge("fail", "exit", OutcomeIs(StatusSuccess), FALSE) >>,
     node_attrs |-> [n \in {"fail"} |-> [tool_command |-> "false"]],
     retry_target |-> "", fallback_retry_target |-> ""]

\* implement -> verify -> check -> implement (on fail).
CycleGraph ==
    [nodes |-> {"start", "implement", "verify", "check", "exit"},
     type |-> [n \in {"start", "implement", "verify", "check", "exit"} |->
                 IF n = "start" THEN "start"
                 ELSE IF n = "exit" THEN "exit"
                 ELSE IF n = "check" THEN "conditional" ELSE "tool"],
     edges |-> << Edge("start", "implement", <<>>, FALSE),
                  Edge("implement", "verify", <<>>, FALSE),
                  Edge("verify", "check", <<>>, FALSE),
                  Edge("check", "implement", OutcomeIs(StatusFail), FALSE),
                  Edge("check", "exit", OutcomeIs(StatusSuccess), FALSE) >>,
     retry_target |-> "", fallback_retry_target |-> ""]

\* start -> fail -> after_fail (on fail) -> exit (on success).
FailEdgeGraph ==
    [nodes |-> {"start", "fail", "after_fail", "exit"},
     type |-> [n \in {"start", "fail", "after_fail", "exit"} |->
                 IF n = "start" THEN "start" ELSE IF n = "exit" THEN "exit" ELSE "tool"],
     edges |-> << Edge("start", "fail", <<>>, FALSE),
                  Edge("fail", "after_fail", OutcomeIs(StatusFail), FALSE),
                  Edge("after_fail", "exit", OutcomeIs(StatusSuccess), FALSE) >>,
     retry_target |-> "", fallback_retry_target |-> ""]

\* start -> attempt -> exit, attempt -> recovery [outcome=fail], recovery ->
\* exit: the edge without condition is declared before the fail edge.
RecoveryGraph ==
    [nodes |-> {"start", "attempt", "recovery", "exit"},
     type |-> [n \in {"start", "attempt", "recovery", "exit"} |->
                 IF n = "start" THEN "start" ELSE IF n = "exit" THEN "exit" ELSE "tool"],
     edges |-> << Edge("start", "attempt", <<>>, FALSE),
                  Edge("attempt", "exit", <<>>, FALSE),
                  Edge("attempt", "recovery", OutcomeIs(StatusFail), FALSE),
                  Edge("recovery", "exit", <<>>, FALSE) >>,
     retry_target |-> "", fallback_retry_target |-> ""]

\* A failure at impl is routed back to impl over a loop_restart=true edge.
RestartGraph ==
    [nodes |-> {"start", "impl", "exit"},
     type |-> [n \in {"start", "impl", "exit"} |->
                 IF n = "start" THEN "start" ELSE IF n = "exit" THEN "exit" ELSE "codergen"],
     edges |-> << Edge("start", "impl", <<>>, FALSE),
                  Edge("impl", "exit", OutcomeIs(StatusSuccess), FALSE),
                  Edge("impl", "impl", OutcomeIs(StatusFail), TRUE) >>,
     retry_target |-> "", fallback_retry_target |-> ""]

\* pre, then the fan-out par with branches b1 = a1 (-> f1 on fail) and
\* b2 = a2, joined at the fan-in join.
ParallelNodes == {"start", "pre", "par", "a1", "f1", "a2", "join", "exit"}

ParallelGraph ==
    [nodes |-> ParallelNodes,
     type |-> [n \in ParallelNodes |->
                 CASE n = "start" -> "start"
                   [] n = "exit" -> "exit"
                   [] n = "par" -> "parallel"
                   [] n = "join" -> "parallel.fan_in"
                   [] n \in {"pre", "a1"} -> "codergen.branch"
                   [] OTHER -> "tool"],
     edges |-> << Edge("start", "pre", <<>>, FALSE),
                  Edge("pre", "par", OutcomeIs(StatusSuccess), FALSE),
                  Edge("pre", "exit", OutcomeIs(StatusFail), FALSE),
                  Edge("par", "a1", <<>>, FALSE),
                  Edge("par", "a2", <<>>, FALSE),
                  Edge("a1", "join", OutcomeIs(StatusSuccess), FALSE),
                  Edge("a1", "f1", OutcomeIs(StatusFail), FALSE),
                  Edge("f1", "join", <<>>, FALSE),
                  Edge("a2", "join", <<>>, FALSE),
                  Edge("join", "exit", <<>>, FALSE) >>,
     retry_target |-> "", fallback_retry_target |-> "",
     join |-> "join", branch_start |-> [b \in {"b1", "b2"} |-> IF b = "b1" THEN "a1" ELSE "a2"]]

\* The fan-out of ParallelGraph whose branch b1 routes a failure of a1 back
\* to a1 over a loop_restart=true edge.
BranchRestartNodes == {"start", "pre", "par", "a1", "a2", "join", "exit"}

BranchRestartGraph ==
    [nodes |-> BranchRestartNodes,
     type |-> [n \in BranchRestartNodes |->
                 CASE n = "start" -> "start"
                   [] n = "exit" -> "exit"
                   [] n = "par" -> "parallel"
                   [] n = "join" -> "parallel.fan_in"
                   [] n \in {"pre", "a1"} -> "codergen.branch"
                   [] OTHER -> "tool"],
     edges |-> << Edge("start", "pre", <<>>, FALSE),
                  Edge("pre", "par", OutcomeIs(StatusSuccess), FALSE),
                  Edge("pre", "exit", OutcomeIs(StatusFail), FALSE),
                  Edge("par", "a1", <<>>, FALSE),
                  Edge("par", "a2", <<>>, FALSE),
                  Edge("a1", "join", OutcomeIs(StatusSuccess), FALSE),
                  Edge("a1", "a1", OutcomeIs(StatusFail), TRUE),
                  Edge("a2", "join", <<>>, FALSE),
                  Edge("join", "exit", <<>>, FALSE) >>,
     retry_target |-> "", fallback_retry_target |-> "",
     join |-> "join", branch_start |-> [b \in {"b1", "b2"} |-> IF b = "b1" THEN "a1" ELSE "a2"]]

\* The fan-out of ParallelGraph whose branch b1 goes from a1 back to a1
\* whenever a1 succeeds.
BranchCycleGraph ==
    [nodes |-> BranchRestartNodes,
     type |-> BranchRestartGraph.type,
     edges |-> << Edge("start", "pre", <<>>, FALSE),
                  Edge("pre", "par", OutcomeIs(StatusSuccess), FALSE),
                  Edge("pre", "exit", OutcomeIs(StatusFail), FALSE),
                  Edge("par", "a1", <<>>, FALSE),
                  Edge("par", "a2", <<>>, FALSE),
                  Edge("a1", "a1", OutcomeIs(StatusSuccess), FALSE),
                  Edge("a1", "join", OutcomeIs(StatusFail), FALSE),
                  Edge("a2", "join", <<>>, FALSE),
                  Edge("join", "exit", <<>>, FALSE) >>,
     retry_target |-> "", fallback_retry_target |-> "",
     join |-> "join", branch_start |-> BranchRestartGraph.branch_start]

\* A fan-out whose branch b1 runs through the fan-in j1 of an inner fan-out
\* (j1 -> v1 without condition), and whose branch b2 is the cycle c2 -> k2 ->
\* c2 (on fail).
NestedNodes == {"start", "par", "j1", "v1", "c2", "k2", "join", "exit"}

NestedGraph ==
    [nodes |-> NestedNodes,
     type |-> [n \in NestedNodes |->
                 CASE n = "start" -> "start"
                   [] n = "exit" -> "exit"
                   [] n = "par" -> "parallel"
                   [] n \in {"j1", "join"} -> "parallel.fan_in"
                   [] n = "k2" -> "conditional"
                   [] OTHER -> "tool"],
     edges |-> << Edge("start", "par", <<>>, FALSE),
                  Edge("par", "j1", <<>>, FALSE),
                  Edge("par", "c2", <<>>, FALSE),
                  Edge("j1", "v1", <<>>, FALSE),
                  Edge("v1", "join", <<>>, FALSE),
                  Edge("c2", "k2", <<>>, FALSE),
                  Edge("k2", "c2", OutcomeIs(StatusFail), FALSE),
                  Edge("k2", "join", OutcomeIs(StatusSuccess), FALSE),
                  Edge("join", "exit", <<>>, FALSE) >>,
     retry_target |-> "", fallback_retry_target |-> "",
     join |-> "join", branch_start |-> [b \in {"b1", "b2"} |-> IF b = "b1" THEN "j1" ELSE "c2"]]

\* The retry-target attributes of a graph: those of the node work and those
\* of the graph itself, "" when unset.
NoTargets == [node_retry_target |-> "", node_fallback_retry_target |-> "",
              graph_retry_target |-> "", graph_fallback_retry_target |-> ""]

TargetChoices ==
    [node_retry_target : {"", "t1"}, node_fallback_retry_target : {"", "t2"},
     graph_retry_target : {"", "t3"}, graph_fallback_retry_target : {"", "t4"}]

RouteNodes == {"start", "work", "t1", "t2", "t3", "t4", "exit"}

\* start -> work -> exit [outcome=success]; a failure of work has no edge to
\* follow and falls back to the retry targets t, each of which leads to exit.
RouteGraph(t) ==
    [nodes |-> RouteNodes,
     type |-> [n \in RouteNodes |->
                 CASE n = "start" -> "start"
                   [] n = "exit" -> "exit"
                   [] n = "work" -> "codergen"
                   [] OTHER -> "tool"],
     edges |-> << Edge("start", "work", <<>>, FALSE),
                  Edge("work", "exit", OutcomeIs(StatusSuccess), FALSE),
                  Edge("t1", "exit", <<>>, FALSE),
                  Edge("t2", "exit", <<>>, FALSE),
                  Edge("t3", "exit", <<>>, FALSE),
                  Edge("t4", "exit", <<>>, FALSE) >>,
     node_attrs |-> [n \in {"work"} |->
                       [retry_target |-> t.node_retry_target,
                        fallback_retry_target |-> t.node_fallback_retry_target]],
     retry_target |-> t.graph_retry_target,
     fallback_retry_target |-> t.graph_fallback_retry_target]

GraphOf(g) ==
    CASE g = "retrygate" -> RetryGateGraph
      [] g = "cycle" -> CycleGraph
      [] g = "failedge" -> FailEdgeGraph
      [] g = "restart" -> RestartGraph
      [] g = "recovery" -> RecoveryGraph
      [] g = "stallsleep" -> StallSleepGraph
      [] g = "parallel" -> ParallelGraph
      [] g = "nested" -> NestedGraph
      [] g = "branchrestart" -> BranchRestartGraph
      [] g = "branchcycle" -> BranchCycleGraph

\* ------------------------------------------------------------------- routing

\* runtime.Context built-ins read by edge conditions.
NewContext == [outcome |-> "", failure_class |-> "", failure_reason |-> "",
               preferred_label |-> ""]

Resolve(key, out, c) ==
    CASE key = "outcome" -> out.status
      [] key = "context.failure_class" -> c.failure_class
      [] key = "context.failure_reason" -> c.failure_reason
      [] key = "context.preferred_label" -> c.preferred_label
      [] key = "context.outcome" -> c.outcome
      [] OTHER -> ""

EvalClause(cl, out, c) ==
    IF cl.op = "=" THEN Resolve(cl.key, out, c) = cl.val
    ELSE Resolve(cl.key, out, c) # cl.val

\* An empty condition is always satisfied; clauses are joined by &&.
EvaluateCondition(cond, out, c) ==
    \A i \in 1..Len(cond) : EvalClause(cond[i], out, c)

Matching(G, from, out, c) ==
    { i \in 1..Len(G.edges) :
        G.edges[i].from = from /\ EvaluateCondition(G.edges[i].condition, out, c) }

Min(S) == CHOOSE x \in S : \A y \in S : x <= y

ConditionalMatching(G, from, out, c) ==
    { i \in Matching(G, from, out, c) : Len(G.edges[i].condition) > 0 }

\* The first outgoing edge, in declared order, whose condition is satisfied,
\* an edge without condition counting as satisfied.
selectNextEdge_declaredOrder(G, from, out, c) ==
    IF Matching(G, from, out, c) = {} THEN 0 ELSE Min(Matching(G, from, out, c))

\* Index of the edge taken from a node, 0 when there is none: the first
\* edge, in declared order, whose condition is satisfied; an edge without
\* condition is taken only when no condition is satisfied.
selectNextEdge(G, from, out, c) ==
    IF ConditionalMatching(G, from, out, c) # {}
    THEN Min(ConditionalMatching(G, from, out, c))
    ELSE IF Matching(G, from, out, c) # {} THEN Min(Matching(G, from, out, c))
    ELSE 0

\* A node's own attribute, "" when unset.
NodeAttr(G, n, key) ==
    IF "node_attrs" \in DOMAIN G
    THEN (IF n \in DOMAIN G.node_attrs
          THEN (IF key \in DOMAIN G.node_attrs[n] THEN G.node_attrs[n][key] ELSE "")
          ELSE "")
    ELSE ""

\* The node's fallback_retry_target is not consulted.
resolveRetryTargetWithSource_noNodeFallback(G, from) ==
    IF NodeAttr(G, from, "retry_target") # "" THEN NodeAttr(G, from, "retry_target")
    ELSE IF G.retry_target # "" THEN G.retry_target
    ELSE IF G.fallback_retry_target # "" THEN G.fallback_retry_target
    ELSE ""

\* Retry-target chain consulted when a failed node has no matching edge: the
\* node's retry_target and fallback_retry_target, then the graph's.
resolveRetryTargetWithSource(G, from) ==
    IF NodeAttr(G, from, "retry_target") # "" THEN NodeAttr(G, from, "retry_target")
    ELSE IF NodeAttr(G, from, "fallback_retry_target") # ""
         THEN NodeAttr(G, from, "fallback_retry_target")
    ELSE IF G.retry_target # "" THEN G.retry_target
    ELSE IF G.fallback_retry_target # "" THEN G.fallback_retry_target
    ELSE ""

Hop(k, t, lr) == [kind |-> k, to |-> t, loop_restart |-> lr]

\* Next hop of the main traversal.  A failed fan-in never takes an
\* unconditional edge; any failed node without a matching edge falls back to
\* the retry-target chain.
resolveNextHop(G, from, out, c) ==
    LET failed == out.status \in {StatusFail, StatusRetry}
        i == IF G.type[from] = "parallel.fan_in" /\ failed
             THEN (IF ConditionalMatching(G, from, out, c) = {} THEN 0
                   ELSE Min(ConditionalMatching(G, from, out, c)))
             ELSE selectNextEdge(G, from, out, c)
    IN IF i # 0 THEN Hop("edge", G.edges[i].to, G.edges[i].loop_restart)
       ELSE IF failed /\ resolveRetryTargetWithSource(G, from) # ""
            THEN Hop("retry_target", resolveRetryTargetWithSource(G, from), FALSE)
       ELSE Hop("none", "", FALSE)

\* ------------------------------------------------------------------ progress

Engines == {"main", "b1", "b2"}
Branches == {"b1", "b2"}

ZeroTime == 0

Ev(name, node, att) ==
    [event |-> name, node_id |-> node, attempt |-> att, branch_key |-> "",
     marshalable |-> TRUE]

NoEvent == Ev("", "", 0)

\* branchEng.progressSink: tag the copy with the branch key.
Tagged(ev, key) == [ev EXCEPT !.branch_key = key]

\* Body of appendProgress for one engine whose LogsRoot is root: nothing is
\* recorded when LogsRoot is empty or the event cannot be marshalled;
\* otherwise lastProgressAt, progress.ndjson and live.json are updated.  The
\* engine's own lines are kept in order (ndjson); lines forwarded by branches,
\* whose relative order is the scheduler's, are kept as a multiset (forwarded).
WriteProgress(P, e, root, ev, t) ==
    IF root = "" \/ ~ev.marshalable
    THEN P
    ELSE [P EXCEPT ![e] = [ndjson |-> IF ev.branch_key = "" THEN Append(@.ndjson, ev)
                                      ELSE @.ndjson,
                           forwarded |-> IF ev.branch_key = "" THEN @.forwarded
                                         ELSE Put(@.forwarded, ev, Get(@.forwarded, ev) + 1),
                           live |-> ev,
                           lastProgressAt |-> t]]

\* The sink is invoked on the LogsRoot = "" path and at the end of the
\* recording path, not when json.Marshal fails.
SinkReached(root, ev) == root = "" \/ ev.marshalable

HasSink(e) == e \in Branches

appendProgress_noForward(P, roots, e, ev, t) ==
    WriteProgress(P, e, roots[e], ev, t)

\* Engine.appendProgress: record locally, then hand a copy to the sink; a
\* branch engine's sink calls the parent's appendProgress with the tagged copy.
appendProgress(P, roots, e, ev, t) ==
    LET P1 == WriteProgress(P, e, roots[e], ev, t)
    IN IF HasSink(e) /\ SinkReached(roots[e], ev)
       THEN WriteProgress(P1, "main", roots["main"], Tagged(ev, e), t)
       ELSE P1

\* --------------------------------------------------------------------- state

VARIABLES
    graph,              \* name of the graph being run
    default_max_retry,  \* graph attribute default_max_retry
    max_restarts,       \* graph attribute max_restarts
    LogsRoot,           \* per engine: "" or the logs directory
    pc,                 \* per engine: position in its traversal
    current,            \* per engine: node about to run / running
    completed,          \* per engine: nodes completed, in order
    nodeRetries,        \* per engine: node -> retries used
    attempt,            \* per engine: attempt number inside the retry gate
    out,                \* per engine: outcome of the last attempt
    ctx,                \* per engine: run context built-ins
    steps,              \* per engine: node executions so far
    gateFrom,           \* per engine: length of progress.ndjson at gate entry
    canceled,           \* run-level cancellation cause, "none" while live
    cancelObserved,     \* per engine: a cancellation check has returned an error
    checkpoint,         \* per engine: content of checkpoint.json
    final,              \* content of final.json
    pending,            \* terminal outcome handed to finalization
    restartCount,       \* loop restarts performed
    restartFailureSignatures, \* restart key -> occurrences
    loopFailureSignatures,    \* deterministic failure signature -> occurrences
    progress,           \* per engine: progress.ndjson, live.json, lastProgressAt
    now,                \* the clock
    error_policy,       \* fan-out attribute: "fail_fast" or "continue"
    branchCancel,       \* the fan-out has canceled its remaining branches
    results,            \* per branch: the parallelBranchResult returned
    sleepUntil,         \* per engine: end of the gate's backoff sleep, 0 when awake
    stageStatus,        \* status.json at the canonical stage path
    fallbackFile,       \* per fallback path: the status file in the worktree
    ingest,             \* copyFirstValidFallbackStatus: position, index, result
    heartbeat,          \* runOnce: process, heartbeat goroutine and its channels
    stageLog,           \* events of the attempts of the codergen stage, in order
    targets,            \* retry-target attributes of the graph's nodes and of the graph
    fanIn,              \* one call of the fan-in handler: position, results, outcome
    turn,               \* one agent-loop codergen stage: session, turn budget, events
    resume,             \* the resume of the run, if any: the checkpoint it started from
    prog,               \* appendProgress call by call: locks, files, goroutines
    proc,               \* one ExecCommand call: the subprocess, its signals, the clock
    fs,                 \* one WriteJSONAtomicFile call: the directory, the step reached
    snap                \* one LoadSnapshot call: the logs root read, the snapshot returned

\* Configuration, fixed for the run.
cfg == << graph, default_max_retry, max_restarts, LogsRoot, error_policy, targets >>

\* State of the fan-out in progress.
par == << branchCancel, results >>

\* Status ingestion and heartbeat of one codergen stage.
\* Handlers followed on their own, outside a traversal.
isolated == << fanIn, turn, resume, prog, proc, fs, snap >>

aux == << stageStatus, fallbackFile, ingest, heartbeat, stageLog, isolated >>

\* The traversal engines.
engineVars == << cfg, par, pc, current, completed,
                 nodeRetries, attempt, out, ctx, steps, gateFrom, canceled, cancelObserved,
                 checkpoint, final, pending, restartCount, restartFailureSignatures,
                 loopFailureSignatures, progress, now, sleepUntil >>

vars == << engineVars, aux >>

G == IF graph = "route" THEN RouteGraph(targets) ELSE GraphOf(graph)

NoFile == [exists |-> FALSE]

NoCheckpoint == [exists |-> FALSE, current_node |-> "", completed |-> <<>>,
                 outcome |-> NoOutcome, context |-> NewContext, retries |-> <<>>]

NoPending == [status |-> "", failure_reason |-> "", cause |-> ""]

\* parallelBranchResult and the error returned with it ("" for nil).
NoResult == [returned |-> FALSE, last_node |-> "", outcome |-> NoOutcome, err |-> ""]

Terminal(st, rsn, cause) == [status |-> st, failure_reason |-> rsn, cause |-> cause]

\* No status file anywhere, no ingestion under way.
NoStatus == "absent"

IngestIdle == [pc |-> "idle", i |-> 0, ret |-> "", err |-> ""]

\* The heartbeat goroutine of one attempt with its two channels (TRUE: closed).
NoGoroutine == [state |-> "none", heartbeatStop |-> FALSE, heartbeatDone |-> FALSE]

HeartbeatIdle == [pc |-> "idle", attempt |-> 0, ctxDone |-> FALSE,
                  g |-> [a \in 1..MaxStageAttempts |-> NoGoroutine]]

FanInIdle == [pc |-> "idle", results |-> [b \in Branches |-> NoResult],
              winner |-> "", out |-> NoOutcome]

\* No agent-loop stage is running.
TurnIdle == [pc |-> "idle"]

\* The run has not been resumed.
ResumeIdle == [done |-> FALSE, node |-> "", completed |-> <<>>, from |-> 0]

\* No appendProgress call is followed step by step.
ProgIdle == [clock |-> 0]

\* No command is executed.
ProcIdle == [pc |-> "idle"]

\* No artifact is being written.
FsIdle == [pc |-> "idle"]

\* No snapshot is loaded.
SnapIdle == [pc |-> "idle"]

\* The handlers that are followed on their own are at rest, all but v.
UnitsIdleExcept(v) ==
    /\ IF v = "fanIn" THEN TRUE ELSE fanIn = FanInIdle
    /\ IF v = "turn" THEN TRUE ELSE turn = TurnIdle
    /\ IF v = "resume" THEN TRUE ELSE resume = ResumeIdle
    /\ IF v = "prog" THEN TRUE ELSE prog = ProgIdle
    /\ IF v = "proc" THEN TRUE ELSE proc = ProcIdle
    /\ IF v = "fs" THEN TRUE ELSE fs = FsIdle
    /\ IF v = "snap" THEN TRUE ELSE snap = SnapIdle

\* The handlers that are followed on their own stay as they are, all but v.
UnitsUnchangedExcept(v) ==
    /\ IF v = "fanIn" THEN TRUE ELSE UNCHANGED fanIn
    /\ IF v = "turn" THEN TRUE ELSE UNCHANGED turn
    /\ IF v = "resume" THEN TRUE ELSE UNCHANGED resume
    /\ IF v = "prog" THEN TRUE ELSE UNCHANGED prog
    /\ IF v = "proc" THEN TRUE ELSE UNCHANGED proc
    /\ IF v = "fs" THEN TRUE ELSE UNCHANGED fs
    /\ IF v = "snap" THEN TRUE ELSE UNCHANGED snap

\* A step of the handler v that is followed on its own: nothing else changes.
OnlyUnit(v) ==
    /\ UNCHANGED << engineVars, stageStatus, fallbackFile, ingest, heartbeat, stageLog >>
    /\ UnitsUnchangedExcept(v)

\* The stage-level machinery at rest, as it is while the traversal is followed.
AuxIdle ==
    /\ stageStatus = NoStatus
    /\ fallbackFile = [k \in 1..2 |-> NoStatus]
    /\ ingest = IngestIdle
    /\ heartbeat = HeartbeatIdle
    /\ stageLog = <<>>
    /\ UnitsIdleExcept("")

InitEngine(graphs) ==
    /\ graph \in graphs
    /\ default_max_retry \in (IF graph \in {"parallel", "route", "branchrestart"} THEN {0, 1}
                              ELSE IF graph \in {"nested", "branchcycle"} THEN {0} ELSE 0..MaxRetries)
    /\ targets \in (IF graph = "route" THEN TargetChoices ELSE {NoTargets})
    /\ max_restarts \in (IF graph = "restart" THEN 1..MaxRestartsCfg ELSE {1})
    /\ LogsRoot = [e \in Engines |-> "logs"]
    /\ pc = [e \in Engines |-> IF e = "main" THEN "preflight" ELSE "idle"]
    /\ current = [e \in Engines |-> ""]
    /\ completed = [e \in Engines |-> <<>>]
    /\ nodeRetries = [e \in Engines |-> <<>>]
    /\ attempt = [e \in Engines |-> 0]
    /\ out = [e \in Engines |-> NoOutcome]
    /\ ctx = [e \in Engines |-> NewContext]
    /\ steps = [e \in Engines |-> 0]
    /\ gateFrom = [e \in Engines |-> 0]
    /\ canceled = "none"
    /\ cancelObserved = [e \in Engines |-> FALSE]
    /\ checkpoint = [e \in Engines |-> NoCheckpoint]
    /\ final = NoFile
    /\ pending = NoPending
    /\ restartCount = 0
    /\ restartFailureSignatures = <<>>
    /\ loopFailureSignatures = [e \in Engines |-> <<>>]
    /\ progress = [e \in Engines |->
                     [ndjson |-> <<>>, forwarded |-> <<>>, live |-> NoEvent,
                      lastProgressAt |-> IF e = "main" THEN 1 ELSE ZeroTime]]
    /\ now = 1
    /\ error_policy \in (IF graph = "parallel" THEN {"fail_fast", "continue"} ELSE {"continue"})
    /\ branchCancel = FALSE
    /\ results = [b \in Branches |-> NoResult]
    /\ sleepUntil = [e \in Engines |-> 0]

InitOn(graphs) == InitEngine(graphs) /\ AuxIdle

Init == InitOn(GraphNames)

InitParallel == InitOn(ParallelGraphNames)

InitNested == InitOn(ParallelGraphNames \cup {"nested"})

\* ctx.Err() != nil for the context the engine runs under.
runContextError_never(e) == FALSE

runContextError(e) == canceled # "none"

\* The branch context does not descend from the run context.
branchContextError_detached(e) == branchCancel

\* ctx.Err() of a branch: the run context or the fan-out's own cancellation.
branchContextError(e) == runContextError(e) \/ branchCancel

contextError(e) == IF e = "main" THEN runContextError(e) ELSE branchContextError(e)

\* Whether this evaluation of ctx.Err() saw the run-level cancellation.
Observe(e) == [cancelObserved EXCEPT ![e] = @ \/ (canceled # "none")]

Emit(e, ev) == appendProgress(progress, LogsRoot, e, ev, now)

\* Why the run context is done: the watchdog's cause or the caller's.
CancelReason == IF canceled = "stall_watchdog" THEN "stall watchdog timeout"
                ELSE "context canceled"

canceledOutcome_generic(cause) == Terminal(StatusFail, "run failed", "fatal")

\* Terminal outcome of a run stopped by cancellation; it carries the cause.
canceledOutcome(cause) == Terminal(StatusFail, CancelReason, cause)

\* ---------------------------------------------------------------- retry gate

\* max_retries of the node (the graph default) plus the first attempt.
maxAttempts(e) == default_max_retry + 1

\* Conditional handler: the previous node's status, label and failure reason,
\* with the previous failure class as a context update.
ConditionalOutcome(c) ==
    [status |-> IF c.outcome = "" THEN StatusSuccess ELSE c.outcome,
     class |-> "", reason |-> c.failure_reason, label |-> c.preferred_label,
     sig_hint |-> "", cu_class |-> c.failure_class]

\* The aggregate is transient as soon as one branch is.
aggregateFailureClass_anyTransient(classes) ==
    IF failureClassTransientInfra \in classes THEN failureClassTransientInfra
    ELSE failureClassDeterministic

\* Class of an all-fail fan-in: any deterministic => deterministic; all
\* transient_infra => transient_infra; anything else => deterministic.
aggregateFailureClass(classes) ==
    IF failureClassDeterministic \in classes THEN failureClassDeterministic
    ELSE IF classes = {failureClassTransientInfra} THEN failureClassTransientInfra
    ELSE failureClassDeterministic

\* Branches in the order of the fan-out's edges.
BranchOrder == << "b1", "b2" >>

\* Preference among candidate winners: success, partial_success, the rest.
statusRank(st) ==
    CASE st = StatusSuccess -> 0
      [] st = StatusPartialSuccess -> 1
      [] OTHER -> 2

\* Only a success or partial_success branch may win.
WinnerCandidates_successOnly(res) ==
    { i \in DOMAIN BranchOrder :
        /\ res[BranchOrder[i]].err = ""
        /\ res[BranchOrder[i]].outcome.status \in {StatusSuccess, StatusPartialSuccess} }

\* Branches that may win: every branch that returned an outcome whose status
\* is not fail (a retry outcome is a candidate).
WinnerCandidates(res) ==
    { i \in DOMAIN BranchOrder :
        /\ res[BranchOrder[i]].err = ""
        /\ res[BranchOrder[i]].outcome.status # StatusFail }

\* The winning branch, "" when every branch failed: the best status, then
\* the first branch in edge order.
selectHeuristicWinner(res) ==
    LET C == WinnerCandidates(res)
        best == { i \in C : \A j \in C :
                    statusRank(res[BranchOrder[i]].outcome.status)
                      <= statusRank(res[BranchOrder[j]].outcome.status) }
    IN IF C = {} THEN "" ELSE BranchOrder[Min(best)]

\* Parallel fan-in handler: with a winner the join succeeds; otherwise it
\* fails with the aggregated class of the failed branches.
FanInOutcome(res) ==
    IF selectHeuristicWinner(res) # ""
    THEN OutSuccess
    ELSE LET class == aggregateFailureClass(
                          {classifyFailureClass(res[b].outcome) : b \in Branches})
         IN Outcome(StatusFail, class, "all parallel branches failed",
                    "parallel_all_failed", class)

\* Fan-in of a fan-out nested in a branch, whose own branches are not
\* followed: one of them succeeded, or all failed.
InnerFanInOutcomes ==
    {OutSuccess,
     Outcome(StatusFail, failureClassDeterministic, "all parallel branches failed",
             "parallel_all_failed", NoUpdate)}

HandlerOutcomes(e) ==
    LET ty == G.type[current[e]]
    IN CASE ty = "start" -> {OutSuccess}
         [] ty = "parallel.fan_in" ->
                IF e = "main" THEN {FanInOutcome(results)} ELSE InnerFanInOutcomes
         [] ty = "codergen.branch" -> BranchOutcomes
         [] ty = "tool" ->
                LET cmd == NodeAttr(G, current[e], "tool_command")
                IN {ToolOutcome(cmd, code) : code \in ToolExitCodes(cmd)}
         [] ty = "conditional" -> {ConditionalOutcome(ctx[e])}
         [] OTHER -> BackendOutcomes

\* The attempt's end event is left out.
emitAttemptEnd_skip(P, e) == P

\* Step 6: stage_attempt_end of the current attempt, on every return path.
emitAttemptEnd(P, e) ==
    appendProgress(P, LogsRoot, e, Ev("stage_attempt_end", current[e], attempt[e]), now)

\* Backoff before a retry (retry.backoff.initial_delay_ms with factor 1);
\* zero unless the graph sets it.
retryDelay == IF graph = "stallsleep" THEN BackoffDelay ELSE 0

\* The backoff sleep ends with its timer only.
sleepOver_timerOnly(e) == now >= sleepUntil[e]

\* select over the backoff timer and ctx.Done(): the sleep ends when the
\* delay has passed or the context is canceled, whichever comes first.
sleepOver(e) == now >= sleepUntil[e] \/ contextError(e)

\* Steps 2-6: the handler returns o; stage_attempt_end is emitted; the gate
\* ends with o, or sleeps before a retry, or reports the retry as blocked.
HandlerReturn(e) ==
    /\ pc[e] = "handler"
    /\ G.type[current[e]] # "parallel"
    /\ \E o \in HandlerOutcomes(e) :
         LET n == current[e]
             failureClass == classifyFailureClass(o)
             P1 == emitAttemptEnd(progress, e)
         IN /\ out' = [out EXCEPT ![e] = o]
            /\ IF o.status \notin {StatusFail, StatusRetry}
               THEN /\ progress' = P1
                    /\ pc' = [pc EXCEPT ![e] = "gate_ret"]
                    /\ UNCHANGED << nodeRetries, sleepUntil >>
               ELSE IF canRetry(attempt[e], maxAttempts(e), o, failureClass)
               THEN /\ progress' = appendProgress(P1, LogsRoot, e,
                                        Ev("stage_retry_sleep", n, attempt[e]), now)
                    /\ nodeRetries' = [nodeRetries EXCEPT
                                         ![e] = Put(@, n, Get(@, n) + 1)]
                    /\ sleepUntil' = [sleepUntil EXCEPT ![e] = now + retryDelay]
                    /\ pc' = [pc EXCEPT ![e] = "sleep"]
               ELSE IF attempt[e] < maxAttempts(e)
               THEN /\ progress' = appendProgress(P1, LogsRoot, e,
                                        Ev("stage_retry_blocked", n, attempt[e]), now)
                    /\ pc' = [pc EXCEPT ![e] = "gate_ret"]
                    /\ UNCHANGED << nodeRetries, sleepUntil >>
               ELSE /\ progress' = P1
                    /\ pc' = [pc EXCEPT ![e] = "gate_ret"]
                    /\ UNCHANGED << nodeRetries, sleepUntil >>
    /\ UNCHANGED << cfg, aux, par, current, completed,
                    attempt, ctx, steps, gateFrom, canceled, cancelObserved, checkpoint,
                    final, pending, restartCount, restartFailureSignatures,
                    loopFailureSignatures, now >>

\* End of the backoff sleep: cancellation turns the pending retry into an
\* immediate return; otherwise the next attempt begins with stage_attempt_start.
SleepWake(e) ==
    /\ pc[e] = "sleep"
    /\ sleepOver(e)
    /\ sleepUntil' = [sleepUntil EXCEPT ![e] = 0]
    /\ cancelObserved' = Observe(e)
    /\ IF contextError(e)
       THEN /\ pc' = [pc EXCEPT ![e] = "gate_ret"]
            /\ UNCHANGED << attempt, progress >>
       ELSE /\ attempt' = [attempt EXCEPT ![e] = @ + 1]
            /\ progress' = Emit(e, Ev("stage_attempt_start", current[e], attempt[e] + 1))
            /\ pc' = [pc EXCEPT ![e] = "handler"]
    /\ UNCHANGED << cfg, aux, par, current, completed,
                    nodeRetries, out, ctx, steps, gateFrom, canceled, checkpoint, final,
                    pending, restartCount, restartFailureSignatures,
                    loopFailureSignatures, now >>

\* The handler itself fails with an engine error (not an outcome): the gate
\* emits the attempt's end event and returns the error.
HandlerFatal ==
    /\ pc["main"] = "handler"
    /\ G.type[current["main"]] \in {"codergen", "codergen.branch"}
    /\ cancelObserved' = Observe("main")
    /\ pending' = IF contextError("main") THEN canceledOutcome(canceled)
                  ELSE Terminal(StatusFail, "handler error", "fatal")
    /\ progress' = emitAttemptEnd(progress, "main")
    /\ pc' = [pc EXCEPT !["main"] = "finalize"]
    /\ UNCHANGED << cfg, aux, sleepUntil, par, current, completed,
                    nodeRetries, attempt, out, ctx, steps, gateFrom, canceled,
                    checkpoint, final, restartCount,
                    restartFailureSignatures, loopFailureSignatures, now >>

\* ----------------------------------------------------------------- main loop

Preflight ==
    /\ pc["main"] = "preflight"
    /\ \E ok \in BOOLEAN :
         IF ok
         THEN /\ pc' = [pc EXCEPT !["main"] = "top"]
              /\ current' = [current EXCEPT !["main"] = "start"]
              /\ UNCHANGED pending
         ELSE /\ pc' = [pc EXCEPT !["main"] = "finalize"]
              /\ pending' = Terminal(StatusFail, "preflight failed", "preflight")
              /\ UNCHANGED current
    /\ UNCHANGED << cfg, aux, sleepUntil, par, completed,
                    nodeRetries, attempt, out, ctx, steps, gateFrom, canceled,
                    cancelObserved, checkpoint, final, restartCount,
                    restartFailureSignatures, loopFailureSignatures, progress, now >>

\* Top of an iteration: cancellation check, terminal node, else enter the
\* retry gate (first attempt, stage_attempt_start).
MainTop ==
    /\ pc["main"] = "top"
    /\ cancelObserved' = Observe("main")
    /\ IF runContextError("main")
       THEN /\ progress' = Emit("main", Ev("traversal_canceled", current["main"], 0))
            /\ pending' = canceledOutcome(canceled)
            /\ pc' = [pc EXCEPT !["main"] = "finalize"]
            /\ UNCHANGED << attempt, steps, gateFrom >>
       ELSE IF G.type[current["main"]] = "exit"
       THEN /\ pending' = Terminal(StatusSuccess, "", "exit")
            /\ pc' = [pc EXCEPT !["main"] = "finalize"]
            /\ UNCHANGED << attempt, steps, gateFrom, progress >>
       ELSE /\ steps["main"] < MaxSteps
            /\ attempt' = [attempt EXCEPT !["main"] = 1]
            /\ steps' = [steps EXCEPT !["main"] = @ + 1]
            /\ gateFrom' = [gateFrom EXCEPT !["main"] = Len(progress["main"].ndjson)]
            /\ progress' = Emit("main", Ev("stage_attempt_start", current["main"], 1))
            /\ pc' = [pc EXCEPT !["main"] = "handler"]
            /\ UNCHANGED pending
    /\ UNCHANGED << cfg, aux, sleepUntil, par, current, completed,
                    nodeRetries, out, ctx, canceled, checkpoint, final, restartCount,
                    restartFailureSignatures, loopFailureSignatures, now >>

\* Context after a node's outcome has been applied: context_updates first,
\* then the built-ins.
ApplyOutcome(c, o) ==
    [outcome |-> o.status,
     failure_class |-> IF o.status \in {StatusFail, StatusRetry}
                       THEN normalizedFailureClassOrDefault(classifyFailureClass(o))
                       ELSE "",
     failure_reason |-> o.reason,
     preferred_label |-> o.label]

\* The gate has returned: a canceled run stops here, before any edge is
\* traversed; otherwise record the node as completed and apply its outcome.
MainApply ==
    /\ pc["main"] = "gate_ret"
    /\ cancelObserved' = Observe("main")
    /\ IF contextError("main")
       THEN /\ pending' = canceledOutcome(canceled)
            /\ pc' = [pc EXCEPT !["main"] = "finalize"]
            /\ UNCHANGED << completed, ctx >>
       ELSE /\ completed' = [completed EXCEPT !["main"] = Append(@, current["main"])]
            /\ ctx' = [ctx EXCEPT !["main"] = ApplyOutcome(@, out["main"])]
            /\ pc' = [pc EXCEPT !["main"] = "checkpoint"]
            /\ UNCHANGED pending
    /\ UNCHANGED << cfg, aux, sleepUntil, par, current, nodeRetries,
                    attempt, out, steps, gateFrom, canceled, checkpoint,
                    final, restartCount, restartFailureSignatures,
                    loopFailureSignatures, progress, now >>

\* checkpoint.json as written after node has completed.
saveCheckpoint_stale(node, o, comp, retries, c) ==
    [exists |-> TRUE, current_node |-> node, completed |-> SubSeq(comp, 1, Len(comp) - 1),
     outcome |-> o, context |-> c, retries |-> retries]

saveCheckpoint(node, o, comp, retries, c) ==
    [exists |-> TRUE, current_node |-> node, completed |-> comp,
     outcome |-> o, context |-> c, retries |-> retries]

\* Step 4: write checkpoint.json atomically, then emit checkpoint_saved; a
\* failed write is a fatal engine error.
MainCheckpoint ==
    /\ pc["main"] = "checkpoint"
    /\ \E ok \in BOOLEAN :
         IF ok
         THEN /\ checkpoint' = [checkpoint EXCEPT
                                  !["main"] = saveCheckpoint(current["main"], out["main"],
                                                            completed["main"],
                                                            nodeRetries["main"],
                                                            ctx["main"])]
              /\ progress' = Emit("main", Ev("checkpoint_saved", current["main"], 0))
              /\ pc' = [pc EXCEPT !["main"] = "resolve"]
              /\ UNCHANGED pending
         ELSE /\ pending' = Terminal(StatusFail, "checkpoint failed", "fatal")
              /\ pc' = [pc EXCEPT !["main"] = "finalize"]
              /\ UNCHANGED << checkpoint, progress >>
    /\ UNCHANGED << cfg, aux, sleepUntil, par, current, completed,
                    nodeRetries, attempt, out, ctx, steps, gateFrom, canceled,
                    cancelObserved, final, restartCount, restartFailureSignatures,
                    loopFailureSignatures, now >>

\* Restart allowed only for a transient_infra failure.
loopRestartClassAllowed_any(o) == TRUE

loopRestartClassAllowed(o) ==
    normalizedFailureClassOrDefault(classifyFailureClass(o)) = failureClassTransientInfra

\* Signature circuit breaker: count is the incremented counter of the key.
signatureLimitReached(count) == count >= RestartSignatureLimit

restartCapReached_never(count, cap) == FALSE

restartCapReached(count, cap) == count >= cap

\* A failed outcome of deterministic class feeds the cycle breaker.
isDeterministicFailure(o) ==
    /\ isFailureLoopRestartOutcome(o)
    /\ normalizedFailureClassOrDefault(classifyFailureClass(o)) = failureClassDeterministic

cycleLimitReached_never(count) == FALSE

cycleLimitReached(count) == count >= RestartSignatureLimit

\* The retry counters survive the restart.
resetRetries_keep(retries) == retries

\* loopRestart -> runLoop(..., map[string]int{}, ...): the restarted iteration
\* begins with an empty retries map.
resetRetries(retries) == <<>>

Sig(e) == restartFailureSignature(current[e], out[e], classifyFailureClass(out[e]))

\* Steps 5-6: resolve the next hop, apply the loop-restart policy and the
\* deterministic failure cycle breaker, move to the next node or terminate.
MainResolve ==
    /\ pc["main"] = "resolve"
    /\ LET o == out["main"]
           hop == IF G.type[current["main"]] = "parallel"
                  THEN Hop("edge", G.join, FALSE)
                  ELSE resolveNextHop(G, current["main"], o, ctx["main"])
           rc == Get(restartFailureSignatures, Sig("main")) + 1
           lc == Get(loopFailureSignatures["main"], Sig("main")) + 1
           stay == /\ UNCHANGED << current, nodeRetries, restartCount,
                                   restartFailureSignatures, loopFailureSignatures >>
           stop(p) == /\ pending' = p
                      /\ pc' = [pc EXCEPT !["main"] = "finalize"]
       IN IF hop.kind = "none"
          THEN /\ stop(IF isFailureLoopRestartOutcome(o)
                       THEN Terminal(StatusFail, o.reason, "no_next_edge")
                       ELSE Terminal(StatusSuccess, "", "no_next_edge"))
               /\ stay
               /\ UNCHANGED progress
          ELSE IF hop.loop_restart
          THEN IF ~loopRestartClassAllowed(o)
               THEN /\ progress' = Emit("main", Ev("loop_restart_blocked", current["main"], 0))
                    /\ stop(Terminal(StatusFail, "loop_restart blocked: failure class",
                                     "loop_restart_class"))
                    /\ stay
               ELSE IF signatureLimitReached(rc)
               THEN /\ progress' = Emit("main", Ev("loop_restart_blocked", current["main"], 0))
                    /\ restartFailureSignatures' = Put(restartFailureSignatures, Sig("main"), rc)
                    /\ stop(Terminal(StatusFail, "loop_restart blocked: signature limit",
                                     "restart_signature_limit"))
                    /\ UNCHANGED << current, nodeRetries, restartCount, loopFailureSignatures >>
               ELSE IF restartCapReached(restartCount, max_restarts)
               THEN /\ restartFailureSignatures' = Put(restartFailureSignatures, Sig("main"), rc)
                    /\ stop(Terminal(StatusFail, "max_restarts exceeded", "max_restarts"))
                    /\ UNCHANGED << current, nodeRetries, restartCount,
                                    loopFailureSignatures, progress >>
               ELSE /\ restartFailureSignatures' = Put(restartFailureSignatures, Sig("main"), rc)
                    /\ restartCount' = restartCount + 1
                    /\ nodeRetries' = [nodeRetries EXCEPT !["main"] = resetRetries(@)]
                    /\ progress' = Emit("main", Ev("loop_restart", current["main"], 0))
                    /\ current' = [current EXCEPT !["main"] = hop.to]
                    /\ pc' = [pc EXCEPT !["main"] = "top"]
                    /\ UNCHANGED << pending, loopFailureSignatures >>
          ELSE IF isDeterministicFailure(o) /\ hop.to \in Range(completed["main"])
          THEN IF cycleLimitReached(lc)
               THEN /\ loopFailureSignatures' =
                         [loopFailureSignatures EXCEPT !["main"] = Put(@, Sig("main"), lc)]
                    /\ progress' = Emit("main", Ev("cycle_break", current["main"], 0))
                    /\ stop(Terminal(StatusFail, "deterministic failure cycle detected",
                                     "cycle_break"))
                    /\ UNCHANGED << current, nodeRetries, restartCount,
                                    restartFailureSignatures >>
               ELSE /\ loopFailureSignatures' =
                         [loopFailureSignatures EXCEPT !["main"] = Put(@, Sig("main"), lc)]
                    /\ current' = [current EXCEPT !["main"] = hop.to]
                    /\ pc' = [pc EXCEPT !["main"] = "top"]
                    /\ UNCHANGED << pending, nodeRetries, restartCount,
                                    restartFailureSignatures, progress >>
          ELSE /\ current' = [current EXCEPT !["main"] = hop.to]
               /\ pc' = [pc EXCEPT !["main"] = "top"]
               /\ UNCHANGED << pending, nodeRetries, restartCount,
                               restartFailureSignatures, loopFailureSignatures, progress >>
    /\ UNCHANGED << cfg, aux, sleepUntil, par, completed, attempt,
                    out, ctx, steps, gateFrom, canceled, cancelObserved, checkpoint,
                    final, now >>

\* ------------------------------------------------ finalization, cancellation

\* final.json status: success for a successful terminal outcome, fail otherwise.
finalStatus(p) == IF p.status = StatusSuccess THEN StatusSuccess ELSE StatusFail

writeFinal_dropReason(f, p) ==
    IF f.exists THEN f
    ELSE [exists |-> TRUE, status |-> finalStatus(p), failure_reason |-> "",
          cause |-> p.cause]

\* Every invocation writes the file anew.
writeFinal_overwrite(f, p) ==
    [exists |-> TRUE, status |-> finalStatus(p), failure_reason |-> p.failure_reason,
     cause |-> p.cause]

\* finalize(outcome, cause): idempotent atomic write of final.json.
writeFinal(f, p) ==
    IF f.exists THEN f
    ELSE [exists |-> TRUE, status |-> finalStatus(p), failure_reason |-> p.failure_reason,
          cause |-> p.cause]

Finalize ==
    /\ pc["main"] = "finalize"
    /\ final' = writeFinal(final, pending)
    /\ pc' = [pc EXCEPT !["main"] = "done"]
    /\ UNCHANGED << cfg, aux, sleepUntil, par, current, completed,
                    nodeRetries, attempt, out, ctx, steps, gateFrom, canceled,
                    cancelObserved, checkpoint, pending, restartCount,
                    restartFailureSignatures, loopFailureSignatures, progress, now >>

Running == pc["main"] \notin {"preflight", "finalize", "done", "closed"}

\* Terminal outcomes with which finalize may be invoked a second time: the
\* cancellation paths and the normal end of the traversal.
LateOutcomes ==
    { Terminal(StatusFail, "context canceled", "context"),
      Terminal(StatusFail, "stall watchdog timeout", "stall_watchdog"),
      Terminal(StatusSuccess, "", "exit") }

\* A second invocation of finalize, by the path that raced with the one that
\* ended the run (a cancellation against normal completion, or the reverse).
LateFinalize ==
    /\ pc["main"] = "done"
    /\ \E p \in LateOutcomes :
         /\ final' = writeFinal(final, p)
         /\ canceled' = IF canceled = "none" /\ p.cause # "exit" THEN p.cause ELSE canceled
    /\ pc' = [pc EXCEPT !["main"] = "closed"]
    /\ UNCHANGED << cfg, aux, sleepUntil, par, current, completed,
                    nodeRetries, attempt, out, ctx, steps, gateFrom,
                    cancelObserved, checkpoint, pending, restartCount,
                    restartFailureSignatures, loopFailureSignatures, progress, now >>

\* The caller cancels the run context.
ContextCancel ==
    /\ Running
    /\ canceled = "none"
    /\ canceled' = "context"
    /\ UNCHANGED << cfg, aux, sleepUntil, par, pc, current,
                    completed, nodeRetries, attempt, out, ctx, steps, gateFrom,
                    cancelObserved, checkpoint, final, pending, restartCount,
                    restartFailureSignatures, loopFailureSignatures, progress, now >>

\* Watchdog condition on the parent's last_progress_at.
stalled(last, t) == t - last >= StallTimeout

\* The watchdog timer finds the run stalled and cancels it.
WatchdogFire ==
    /\ Running
    /\ canceled = "none"
    /\ stalled(progress["main"].lastProgressAt, now)
    /\ canceled' = "stall_watchdog"
    /\ UNCHANGED << cfg, aux, sleepUntil, par, pc, current,
                    completed, nodeRetries, attempt, out, ctx, steps, gateFrom,
                    cancelObserved, checkpoint, final, pending, restartCount,
                    restartFailureSignatures, loopFailureSignatures, progress, now >>

Tick ==
    /\ now < MaxTime
    /\ Running
    /\ now' = now + 1
    /\ UNCHANGED << cfg, aux, sleepUntil, par, pc, current,
                    completed, nodeRetries, attempt, out, ctx, steps, gateFrom, canceled,
                    cancelObserved, checkpoint, final, pending, restartCount,
                    restartFailureSignatures, loopFailureSignatures, progress >>

\* ------------------------------------------------------- parallel fan-out/in

\* Parallel fan-out handler: spawn one branch engine per branch edge.
FanOut ==
    /\ pc["main"] = "handler"
    /\ G.type[current["main"]] = "parallel"
    /\ pc' = [e \in Engines |-> IF e = "main" THEN "fanout_wait" ELSE "top"]
    /\ current' = [e \in Engines |-> IF e = "main" THEN current[e] ELSE G.branch_start[e]]
    /\ UNCHANGED << cfg, aux, sleepUntil, par, completed, nodeRetries, attempt, out, ctx, steps, gateFrom,
                    canceled, cancelObserved, checkpoint, final, pending, restartCount,
                    restartFailureSignatures, loopFailureSignatures, progress, now >>

\* The branch returns res with error err; under fail_fast a failed branch
\* cancels its siblings.
Return(e, o, err) ==
    /\ results' = [results EXCEPT ![e] = [returned |-> TRUE, last_node |-> current[e],
                                          outcome |-> o, err |-> err]]
    /\ branchCancel' = (branchCancel \/
                        (error_policy = "fail_fast" /\
                         (err # "" \/ o.status \in {StatusFail, StatusRetry})))
    /\ pc' = [pc EXCEPT ![e] = "returned"]

\* Loop head of runSubgraphUntil: cancellation, stop node, then the gate.
SubTop(e) ==
    /\ e \in Branches
    /\ pc[e] = "top"
    /\ cancelObserved' = Observe(e)
    /\ IF branchContextError(e)
       THEN /\ Return(e, out[e], "context canceled")
            /\ UNCHANGED << attempt, steps, gateFrom, progress >>
       ELSE IF current[e] = G.join
       THEN /\ Return(e, out[e], "")
            /\ UNCHANGED << attempt, steps, gateFrom, progress >>
       ELSE /\ steps[e] < MaxSteps
            /\ attempt' = [attempt EXCEPT ![e] = 1]
            /\ steps' = [steps EXCEPT ![e] = @ + 1]
            /\ gateFrom' = [gateFrom EXCEPT ![e] = Len(progress[e].ndjson)]
            /\ progress' = Emit(e, Ev("stage_attempt_start", current[e], 1))
            /\ pc' = [pc EXCEPT ![e] = "handler"]
            /\ UNCHANGED par
    /\ UNCHANGED << cfg, aux, sleepUntil, current, completed, nodeRetries, out, ctx, canceled, checkpoint,
                    final, pending, restartCount, restartFailureSignatures,
                    loopFailureSignatures, now >>

\* After the gate: cancellation check, record completion, apply context
\* updates and the built-ins outcome and preferred_label.
SubApply(e) ==
    /\ e \in Branches
    /\ pc[e] = "gate_ret"
    /\ cancelObserved' = Observe(e)
    /\ IF branchContextError(e)
       THEN /\ Return(e, out[e], "context canceled")
            /\ UNCHANGED << completed, ctx >>
       ELSE /\ completed' = [completed EXCEPT ![e] = Append(@, current[e])]
            /\ ctx' = [ctx EXCEPT ![e] =
                         [@ EXCEPT !.outcome = out[e].status,
                                   !.preferred_label = out[e].label,
                                   !.failure_class = IF out[e].cu_class # NoUpdate
                                                     THEN out[e].cu_class ELSE @]]
            /\ pc' = [pc EXCEPT ![e] = "checkpoint"]
            /\ UNCHANGED par
    /\ UNCHANGED << cfg, aux, sleepUntil, current, nodeRetries, attempt, out, steps, gateFrom, canceled,
                    checkpoint, final, pending, restartCount, restartFailureSignatures,
                    loopFailureSignatures, progress, now >>

\* eng.checkpoint, then the cancellation check that follows it.
SubCheckpoint(e) ==
    /\ e \in Branches
    /\ pc[e] = "checkpoint"
    /\ \E ok \in BOOLEAN :
         IF ~ok
         THEN /\ Return(e, NoOutcome, "checkpoint failed")
              /\ UNCHANGED << checkpoint, progress, cancelObserved >>
         ELSE /\ checkpoint' = [checkpoint EXCEPT
                                  ![e] = saveCheckpoint(current[e], out[e], completed[e],
                                                       nodeRetries[e], ctx[e])]
              /\ progress' = Emit(e, Ev("checkpoint_saved", current[e], 0))
              /\ cancelObserved' = Observe(e)
              /\ IF branchContextError(e)
                 THEN Return(e, out[e], "context canceled")
                 ELSE /\ pc' = [pc EXCEPT ![e] = "select"]
                      /\ UNCHANGED par
    /\ UNCHANGED << cfg, aux, sleepUntil, current, completed, nodeRetries, attempt, out, ctx, steps,
                    gateFrom, canceled, final, pending, restartCount,
                    restartFailureSignatures, loopFailureSignatures, now >>

\* The chosen edge is not treated as a restart edge.
subgraphLoopRestart_ignored(edge) == FALSE

\* strings.EqualFold(next.Attr("loop_restart", "false"), "true")
subgraphLoopRestart(edge) == edge.loop_restart

\* selectNextEdge and the checks before moving to next.To.
SubSelect(e) ==
    /\ e \in Branches
    /\ pc[e] = "select"
    /\ LET i == selectNextEdge(G, current[e], out[e], ctx[e])
       IN IF i = 0 \/ G.edges[i].to = G.join
          THEN /\ Return(e, out[e], "")
               /\ UNCHANGED << current, cancelObserved >>
          ELSE IF subgraphLoopRestart(G.edges[i])
          THEN /\ Return(e, NoOutcome, "loop_restart not supported in v1")
               /\ UNCHANGED << current, cancelObserved >>
          ELSE /\ cancelObserved' = Observe(e)
               /\ IF branchContextError(e)
                  THEN /\ Return(e, out[e], "context canceled")
                       /\ UNCHANGED current
                  ELSE /\ current' = [current EXCEPT ![e] = G.edges[i].to]
                       /\ pc' = [pc EXCEPT ![e] = "top"]
                       /\ UNCHANGED par
    /\ UNCHANGED << cfg, aux, sleepUntil, completed, nodeRetries, attempt, out, ctx, steps, gateFrom,
                    canceled, checkpoint, final, pending, restartCount,
                    restartFailureSignatures, loopFailureSignatures, progress, now >>

\* The fan-out handler returns once every branch has returned.
FanOutJoin ==
    /\ pc["main"] = "fanout_wait"
    /\ \A b \in Branches : pc[b] = "returned"
    /\ out' = [out EXCEPT !["main"] = OutSuccess]
    /\ progress' = emitAttemptEnd(progress, "main")
    /\ pc' = [pc EXCEPT !["main"] = "gate_ret"]
    /\ UNCHANGED << cfg, aux, sleepUntil, par, current, completed, nodeRetries, attempt, ctx, steps,
                    gateFrom, canceled, cancelObserved, checkpoint, final, pending,
                    restartCount, restartFailureSignatures, loopFailureSignatures, now >>

\* Steps of a run without fan-out.
Next ==
    \/ Preflight
    \/ MainTop
    \/ HandlerReturn("main")
    \/ SleepWake("main")
    \/ HandlerFatal
    \/ MainApply
    \/ MainCheckpoint
    \/ MainResolve
    \/ Finalize
    \/ ContextCancel
    \/ WatchdogFire
    \/ Tick

Spec == Init /\ [][Next]_vars

\* Runs in which finalize is invoked by two racing paths.
NextRace == Next \/ LateFinalize

InitRace == InitOn({"retrygate", "failedge"})

SpecRace == InitRace /\ [][NextRace]_vars

\* The resumed traversal starts over at the start node.
resumeNode_fromStart(cp) == "start"

\* The node the resumed traversal goes on from: the last checkpointed one.
resumeNode(cp) == cp.current_node

\* Resume(ctx, logsRoot) on a logs root without final.json: the process of
\* the run is gone, whatever it was doing; a new engine takes current node,
\* outcome, completed nodes, retries and context from checkpoint.json and
\* goes on with the next-hop policy of the main loop.  What is kept in
\* memory only (restart and cycle counters, the gate's position) starts anew.
Resume ==
    /\ ~resume.done
    /\ ~final.exists
    /\ checkpoint["main"].exists
    /\ LET cp == checkpoint["main"]
       IN /\ resume' = [done |-> TRUE, node |-> cp.current_node,
                        completed |-> cp.completed,
                        from |-> Len(progress["main"].ndjson)]
          /\ current' = [current EXCEPT !["main"] = resumeNode(cp)]
          /\ completed' = [completed EXCEPT !["main"] = cp.completed]
          /\ out' = [out EXCEPT !["main"] = cp.outcome]
          /\ ctx' = [ctx EXCEPT !["main"] = cp.context]
          /\ nodeRetries' = [nodeRetries EXCEPT !["main"] = cp.retries]
    /\ pc' = [pc EXCEPT !["main"] = "resolve"]
    /\ attempt' = [attempt EXCEPT !["main"] = 0]
    /\ sleepUntil' = [sleepUntil EXCEPT !["main"] = 0]
    /\ canceled' = "none"
    /\ cancelObserved' = [cancelObserved EXCEPT !["main"] = FALSE]
    /\ pending' = NoPending
    /\ restartCount' = 0
    /\ restartFailureSignatures' = <<>>
    /\ loopFailureSignatures' = [loopFailureSignatures EXCEPT !["main"] = <<>>]
    /\ progress' = [progress EXCEPT !["main"].lastProgressAt = now]
    /\ UNCHANGED << cfg, par, steps, gateFrom, checkpoint, final, now,
                    stageStatus, fallbackFile, ingest, heartbeat, stageLog >>
    /\ UnitsUnchangedExcept("resume")

\* Runs that are interrupted and resumed once, with no stall timeout
\* configured: a graph with a retried stage and a graph with a fail loop.
InitResume ==
    /\ InitOn({"retrygate", "cycle"})
    /\ default_max_retry <= 1

NextResume ==
    \/ Preflight
    \/ MainTop
    \/ HandlerReturn("main")
    \/ SleepWake("main")
    \/ HandlerFatal
    \/ MainApply
    \/ MainCheckpoint
    \/ MainResolve
    \/ Finalize
    \/ ContextCancel
    \/ Resume

SpecResume == InitResume /\ [][NextResume]_vars

\* Runs of the graph whose failures fall back to the retry targets.
InitRoute == InitOn({"route"})

SpecRoute == InitRoute /\ [][Next]_vars

\* Steps of a run with a fan-out: the main loop and the branch engines.
NextParallel ==
    \/ Next
    \/ FanOut
    \/ \E e \in Branches : HandlerReturn(e)
    \/ \E e \in Branches : SleepWake(e)
    \/ \E e \in Branches : SubTop(e)
    \/ \E e \in Branches : SubApply(e)
    \/ \E e \in Branches : SubCheckpoint(e)
    \/ \E e \in Branches : SubSelect(e)
    \/ FanOutJoin

SpecParallel == InitParallel /\ [][NextParallel]_vars

\* Runs of the fan-out graphs, one of them with a loop_restart edge inside a
\* branch.
InitBranchRestart == InitOn(ParallelGraphNames \cup {"branchrestart"})

SpecBranchRestart == InitBranchRestart /\ [][NextParallel]_vars

InitBranchCycle == InitOn(ParallelGraphNames \cup {"branchcycle"})

SpecBranchCycle == InitBranchCycle /\ [][NextParallel]_vars

\* Every graph, with and without fan-out.
InitAll == InitOn(GraphNames \cup ParallelGraphNames)

SpecAll == InitAll /\ [][NextParallel]_vars

\* Runs of the fan-out graphs, the one with a nested fan-in and a branch
\* cycle included.
SpecNested == InitNested /\ [][NextParallel]_vars

\* ------------------------------------------------------------------- claims

\* Own progress events of engine e since it entered the current retry gate.
GateEvents(e) == SubSeq(progress[e].ndjson, gateFrom[e] + 1, Len(progress[e].ndjson))

CountEvents(q, name, node) ==
    Cardinality({i \in DOMAIN q : q[i].event = name /\ q[i].node_id = node})

InGate(e) == pc[e] \in {"handler", "sleep", "gate_ret"}

IsDeterministicFail(o) ==
    o.status = StatusFail /\ classifyFailureClass(o) = failureClassDeterministic

\* C1: when an attempt of a node with retry budget left (max_retries >= 1,
\* attempt < max) returns fail with class deterministic, the gate returns at
\* once: it never sleeps for a retry, the last event it emits is
\* stage_retry_blocked for that node and attempt, and when the failure came
\* on the first attempt the handler has been invoked exactly once and no
\* stage_retry_sleep exists for the node.
C1_DeterministicNotRetried ==
    \A e \in Engines :
        ( /\ pc[e] \in {"sleep", "gate_ret"}
          /\ default_max_retry >= 1
          /\ attempt[e] < maxAttempts(e)
          /\ IsDeterministicFail(out[e]) )
        => /\ pc[e] = "gate_ret"
           /\ progress[e].live = Ev("stage_retry_blocked", current[e], attempt[e])
           /\ CountEvents(GateEvents(e), "stage_retry_blocked", current[e]) = 1
           /\ attempt[e] = 1 =>
                /\ CountEvents(GateEvents(e), "stage_attempt_start", current[e]) = 1
                /\ CountEvents(GateEvents(e), "stage_attempt_end", current[e]) = 1
                /\ CountEvents(GateEvents(e), "stage_retry_sleep", current[e]) = 0

C1_Witness ==
    /\ graph = "retrygate"
    /\ pc["main"] = "gate_ret"
    /\ current["main"] = "r"
    /\ default_max_retry = MaxRetries
    /\ attempt["main"] = 1
    /\ IsDeterministicFail(out["main"])

\* C2: one invocation of the retry gate starts at most max_retries + 1
\* attempts, and it never sleeps for a retry once the attempt counter has
\* reached that maximum, whatever the class of the last outcome.
C2_AttemptsBounded ==
    \A e \in Engines :
        InGate(e) =>
            /\ attempt[e] <= maxAttempts(e)
            /\ CountEvents(GateEvents(e), "stage_attempt_start", current[e]) = attempt[e]
            /\ (pc[e] = "sleep" => attempt[e] < maxAttempts(e))
            /\ CountEvents(GateEvents(e), "stage_retry_sleep", current[e]) <= default_max_retry

C2_Witness ==
    /\ pc["main"] = "gate_ret"
    /\ default_max_retry = MaxRetries
    /\ attempt["main"] = maxAttempts("main")
    /\ out["main"].status = StatusFail
    /\ classifyFailureClass(out["main"]) = failureClassTransientInfra
    /\ CountEvents(GateEvents("main"), "stage_retry_sleep", current["main"]) = MaxRetries

CountIn(q, x) == Cardinality({i \in DOMAIN q : q[i] = x})

\* Signature of the failure that check passes on in the cycle graph.
CycleSignature == <<"check", failureClassDeterministic, "exit status 1">>

CycleTerminal ==
    Terminal(StatusFail, "deterministic failure cycle detected", "cycle_break")

\* C3: in the graph implement -> verify -> check -> implement (on fail, no
\* loop_restart), where every failing pass carries the same deterministic
\* signature, the run makes at most restart_signature_limit passes: the
\* pass that brings the signature to the limit ends the run as fail with
\* "deterministic failure cycle detected", and the traversal never runs
\* into the exploration cap on node executions.
C3_CycleTerminates ==
    graph = "cycle" =>
        /\ steps["main"] < MaxSteps
        /\ CountIn(completed["main"], "implement") <= RestartSignatureLimit
        /\ Get(loopFailureSignatures["main"], CycleSignature) <= RestartSignatureLimit
        /\ Get(loopFailureSignatures["main"], CycleSignature) = RestartSignatureLimit
             => /\ pc["main"] \in {"finalize", "done"}
                /\ pending = CycleTerminal
        /\ (pc["main"] = "done" /\ pending = CycleTerminal)
             => /\ final.status = StatusFail
                /\ final.failure_reason = "deterministic failure cycle detected"

C3_Witness ==
    /\ graph = "cycle"
    /\ pc["main"] = "done"
    /\ CountIn(completed["main"], "check") = RestartSignatureLimit
    /\ final.exists
    /\ final.failure_reason = "deterministic failure cycle detected"
    /\ progress["main"].live.event = "cycle_break"

\* C4 (as claimed): when the run ends on the signature circuit breaker and
\* every failure routed over the loop_restart edge had the same signature,
\* exactly restart_signature_limit (three) restarts have been performed.
C4_ThreeRestartsThenBlocked ==
    ( /\ graph = "restart"
      /\ pending.cause = "restart_signature_limit"
      /\ Cardinality(DOMAIN restartFailureSignatures) = 1 )
    => restartCount = RestartSignatureLimit

\* C5: the number of loop restarts performed never exceeds max_restarts, and
\* a run stopped by that cap has performed exactly max_restarts restarts.
C5_RestartsCapped ==
    /\ restartCount <= max_restarts
    /\ pending.cause = "max_restarts" => restartCount = max_restarts
    /\ CountEvents(progress["main"].ndjson, "loop_restart", "impl") = restartCount

\* Every restart so far came from a failure with a signature of its own.
C5_Witness ==
    /\ graph = "restart"
    /\ pending.cause = "max_restarts"
    /\ restartCount = max_restarts
    /\ restartCount >= 2
    /\ \A k \in DOMAIN restartFailureSignatures : restartFailureSignatures[k] < RestartSignatureLimit
    /\ Cardinality(DOMAIN restartFailureSignatures) >= 2

ChosenHop == resolveNextHop(G, current["main"], out["main"], ctx["main"])

\* C6: when the main loop leaves its resolve step with a chosen edge that
\* carries loop_restart=true and an outcome whose normalized failure class
\* is not transient_infra, it emits loop_restart_blocked and terminates as
\* fail: no restart is counted and traversal does not move to the target.
C6_NonTransientRestartBlocked ==
    [][ ( /\ pc["main"] = "resolve"
          /\ pc'["main"] # "resolve"
          /\ ChosenHop.kind = "edge"
          /\ ChosenHop.loop_restart
          /\ normalizedFailureClassOrDefault(classifyFailureClass(out["main"]))
               # failureClassTransientInfra )
        => /\ pc'["main"] = "finalize"
           /\ pending'.status = StatusFail
           /\ progress'["main"].live = Ev("loop_restart_blocked", current["main"], 0)
           /\ restartCount' = restartCount
           /\ current'["main"] = current["main"]
           /\ steps' = steps ]_vars

C6_Witness ==
    /\ graph = "restart"
    /\ pc["main"] = "finalize"
    /\ pending.cause = "loop_restart_class"
    /\ classifyFailureClass(out["main"]) = "bogus"
    /\ progress["main"].live.event = "loop_restart_blocked"
    /\ restartCount = 1

\* C7: a run that has ended, by whatever path (terminal node, no next edge,
\* loop or cycle breaker, stall watchdog, context cancellation, fatal engine
\* error, preflight failure), has a final.json whose status is success or
\* fail, with a non-empty failure_reason when it is fail; a run ended by
\* cancellation, a fatal error or a failed preflight is a fail.
C7_FinalOnEveryExit ==
    pc["main"] = "done" =>
        /\ final.exists
        /\ final.status \in {StatusSuccess, StatusFail}
        /\ final.status = StatusFail => final.failure_reason # ""
        /\ final.cause = pending.cause
        /\ final.cause \in {"stall_watchdog", "context", "fatal", "preflight"}
             => final.status = StatusFail

C7_Witness ==
    /\ pc["main"] = "done"
    /\ canceled = "stall_watchdog"
    /\ final.exists
    /\ final.status = StatusFail
    /\ final.cause = "stall_watchdog"
    /\ final.failure_reason = "stall watchdog timeout"

Last(q) == q[Len(q)]

Appended(e) == Len(progress'[e].ndjson) > Len(progress[e].ndjson)

StageEvents ==
    {"stage_attempt_start", "stage_attempt_end", "stage_retry_sleep", "stage_retry_blocked"}

Checkpointed(e) ==
    /\ checkpoint[e].exists
    /\ checkpoint[e].completed = completed[e]
    /\ checkpoint[e].current_node = Last(completed[e])

\* C8: in the main loop and in every branch, the engine selects the next
\* edge (moves to another node, or ends at its resolve / select step) only
\* when checkpoint.json records the node just completed together with all
\* nodes completed before it, and it emits a stage event of a node only when
\* every node completed so far is recorded in checkpoint.json.
C8_CheckpointBeforeNext ==
    [][ \A e \in Engines :
          /\ (pc[e] \in {"resolve", "select"} /\ pc'[e] # pc[e])
               => /\ Checkpointed(e)
                  /\ checkpoint[e].current_node = current[e]
          /\ (current[e] # "" /\ current'[e] # current[e]) => Checkpointed(e)
          /\ ( /\ Appended(e)
               /\ Last(progress'[e].ndjson).event \in StageEvents
               /\ completed[e] # <<>> )
               => /\ Checkpointed(e)
                  /\ completed'[e] = completed[e] ]_vars

C8_Witness ==
    /\ pc["b1"] = "handler"
    /\ current["b1"] = "f1"
    /\ checkpoint["b1"].exists
    /\ checkpoint["b1"].completed = <<"a1">>
    /\ progress["b1"].live = Ev("stage_attempt_start", "f1", 1)
    /\ pc["main"] = "fanout_wait"
    /\ checkpoint["main"].completed = <<"start", "pre">>

\* C9: once an engine (the main loop or a branch, under either error
\* policy) has evaluated the run context's error while the run was
\* canceled, it emits no further stage_attempt_start and enters no retry
\* gate; a branch does not move to another node.
C9_NoAttemptAfterCancel ==
    [][ \A e \in Engines :
          cancelObserved[e] =>
              /\ ~( /\ Appended(e)
                    /\ Last(progress'[e].ndjson).event = "stage_attempt_start" )
              /\ steps'[e] = steps[e]
              /\ attempt'[e] = attempt[e]
              /\ pc'[e] # "handler" \/ pc[e] = "handler"
              /\ e \in Branches => current'[e] = current[e] ]_vars

C9_Witness ==
    /\ error_policy = "continue"
    /\ cancelObserved["b1"]
    /\ results["b1"].returned
    /\ results["b1"].err = "context canceled"
    /\ results["b1"].last_node = "a1"
    /\ results["b1"].outcome.status = StatusFail
    /\ cancelObserved["main"]
    /\ pc["main"] = "done"
    /\ final.cause = "stall_watchdog"

\* C10: the watchdog cancels the run only when no branch has emitted a
\* progress event within the last stall_timeout, and the parent's
\* last_progress_at is never older than that of any branch.
C10_BranchProgressKeepsParentAlive ==
    /\ [][ (canceled = "none" /\ canceled' = "stall_watchdog")
           => \A b \in Branches : now - progress[b].lastProgressAt >= StallTimeout ]_vars
    /\ [](\A b \in Branches :
            progress["main"].lastProgressAt >= progress[b].lastProgressAt)

\* The parent has emitted nothing of its own for stall_timeout (the fan-out
\* began that long ago), b1 has just emitted, and the run is not canceled.
C10_Witness ==
    /\ pc["main"] = "fanout_wait"
    /\ canceled = "none"
    /\ now - progress["b2"].lastProgressAt >= StallTimeout
    /\ progress["b2"].lastProgressAt # ZeroTime
    /\ progress["b1"].lastProgressAt = now
    /\ progress["main"].lastProgressAt = now
    /\ progress["main"].live.branch_key = "b1"

\* ------------------------------------------------------- stall watchdog (C11)

\* A handler whose run context is done returns: the tool's command is killed,
\* a backend call is aborted.
HandlerInterrupted == contextError("main") /\ HandlerReturn("main")

\* Scheduling: the watchdog is a ticker goroutine; the main traversal is
\* running code, its backoff sleep a timer; the clock advances; a handler is
\* only known to return once its context is canceled.
FairRun ==
    /\ WF_vars(WatchdogFire)
    /\ WF_vars(HandlerInterrupted)
    /\ WF_vars(SleepWake("main"))
    /\ WF_vars(Preflight)
    /\ WF_vars(MainTop)
    /\ WF_vars(MainApply)
    /\ WF_vars(MainCheckpoint)
    /\ WF_vars(MainResolve)
    /\ WF_vars(Finalize)
    /\ WF_vars(Tick)

\* The runs of the watchdog tests: one stage between start and exit, and a
\* failing stage with a fail edge behind it.
InitStall == InitOn({"retrygate", "failedge", "stallsleep"})

SpecFair == InitStall /\ [][Next]_vars /\ FairRun

Stalled == Running /\ canceled = "none" /\ stalled(progress["main"].lastProgressAt, now)

InStage == pc["main"] \in {"top", "handler", "sleep", "gate_ret"}

StallFailure ==
    /\ final.exists
    /\ final.status = StatusFail
    /\ final.cause = "stall_watchdog"
    /\ final.failure_reason = "stall watchdog timeout"

\* C11: a run without progress for stall_timeout is canceled by the watchdog's
\* next check (unless progress, the caller's cancellation or the end of the run
\* comes first), and a run canceled by the watchdog during a stage ends with
\* the stall-watchdog failure in final.json instead of waiting for the stage.
C11_StallCancelsRun ==
    /\ Stalled ~> (canceled # "none" \/ ~Stalled)
    /\ (canceled = "stall_watchdog" /\ InStage) ~> StallFailure

\* The watchdog fired while the handler of a stage had not returned, and the
\* run has ended with the stall-watchdog failure.
C11_Witness ==
    /\ StallFailure
    /\ pc["main"] = "done"
    /\ G.type[current["main"]] \notin {"start", "exit"}
    /\ current["main"] \notin Range(completed["main"])

\* ------------------------------------------- watchdog during backoff (C12)

\* The watchdog has canceled the run while the gate sleeps before a retry.
SleepCanceled == pc["main"] = "sleep" /\ canceled = "stall_watchdog"

\* C12: once the watchdog has canceled the run during the gate's backoff
\* sleep, the sleep can end at once, whatever is left of the delay, and when
\* it ends the gate returns: no further attempt is started and no event is
\* emitted.
C12_WatchdogInterruptsSleep ==
    /\ [](SleepCanceled => ENABLED SleepWake("main"))
    /\ [][SleepCanceled /\ pc'["main"] # "sleep"
            => /\ pc'["main"] = "gate_ret"
               /\ attempt'["main"] = attempt["main"]
               /\ progress'["main"].ndjson = progress["main"].ndjson]_vars

\* The gate has returned from a sleep cut short by the watchdog: the last
\* event is the stage_retry_sleep and the backoff delay has not passed.
C12_Witness ==
    /\ graph = "stallsleep"
    /\ pc["main"] = "gate_ret"
    /\ canceled = "stall_watchdog"
    /\ Len(progress["main"].ndjson) > 0
    /\ Last(progress["main"].ndjson).event = "stage_retry_sleep"
    /\ now < progress["main"].lastProgressAt + BackoffDelay

\* ------------------------------------------------------ edge selection (C14)

\* The main loop moves from a node over one of its edges (not from a failed
\* fan-in, not over a retry target).
MovesOverEdge ==
    /\ pc["main"] = "resolve"
    /\ pc'["main"] = "top"
    /\ G.type[current["main"]] # "parallel"
    /\ ChosenHop.kind = "edge"
    /\ ~(G.type[current["main"]] = "parallel.fan_in"
         /\ out["main"].status \in {StatusFail, StatusRetry})

\* Outgoing edges of the current node whose condition the context satisfies.
Satisfied == Matching(G, current["main"], out["main"], ctx["main"])

SatisfiedConditional ==
    { i \in Satisfied : G.edges[i].condition # <<>> }

FailedFanIn(e) ==
    /\ pc[e] \in {"resolve", "select"}
    /\ G.type[current[e]] = "parallel.fan_in"
    /\ out[e].status \in {StatusFail, StatusRetry}

\* Targets a failed fan-in may be left for: matching conditional edges and
\* the retry target.
FanInFailureTargets(e) ==
    ( { G.edges[i].to : i \in ConditionalMatching(G, current[e], out[e], ctx[e]) }
      \cup { resolveRetryTargetWithSource(G, current[e]) } ) \ {""}

\* C13: an engine (the main loop or a branch) that leaves a fan-in node whose
\* outcome is fail or retry moves only to the target of a matching conditional
\* edge or to a retry target; with neither, the main loop terminates the run
\* as fail and a branch returns the failed outcome; the edge without condition
\* is not taken.
C13_FailedFanInSkipsUnconditional ==
    [][\A e \in Engines :
         (FailedFanIn(e) /\ pc'[e] # pc[e]) =>
            \/ /\ FanInFailureTargets(e) # {}
               /\ current'[e] \in FanInFailureTargets(e)
            \/ /\ FanInFailureTargets(e) = {}
               /\ current'[e] = current[e]
               /\ pc'[e] \in {"finalize", "returned"}
               /\ e = "main" => pending'.status = StatusFail]_vars

\* ------------------------------------------------ branch cycle breaker (C15)

\* C15: in the branch c2 -> k2 -> c2 (on fail), where every failing pass
\* carries the same deterministic signature, the branch makes at most
\* restart_signature_limit passes and never runs into the exploration cap on
\* node executions: at the limit its traversal has stopped with a
\* cycle-detected error.
C15_BranchCycleBroken ==
    graph = "nested" =>
        /\ steps["b2"] < MaxSteps
        /\ CountIn(completed["b2"], "k2") <= RestartSignatureLimit
        /\ ( /\ CountIn(completed["b2"], "k2") = RestartSignatureLimit
             /\ pc["b2"] \notin {"checkpoint", "select"}
             /\ out["b2"].status = StatusFail )
           => /\ results["b2"].returned
              /\ results["b2"].err # ""

\* ------------------------------------------------- context built-ins (C16)

NodeCompleted(e) == pc[e] \in {"checkpoint", "resolve", "select"}

\* C16: once a node has completed, in the main loop or in a branch, and until
\* the next edge is chosen, the context keys outcome, failure_class,
\* failure_reason and preferred_label are those of the node's outcome.
C16_BuiltinsFollowLastOutcome ==
    \A e \in Engines :
        NodeCompleted(e) =>
            /\ ctx[e].outcome = out[e].status
            /\ ctx[e].preferred_label = out[e].label
            /\ ctx[e].failure_reason = out[e].reason
            /\ ctx[e].failure_class =
                   IF out[e].status \in {StatusFail, StatusRetry}
                   THEN normalizedFailureClassOrDefault(classifyFailureClass(out[e]))
                   ELSE ""

\* ------------------------------------------------- status ingestion (C17)

\* Fallbacks of the stage status contract, in order: <worktree>/status.json
\* and <worktree>/.ai/status.json.
fallbackPaths == << "status.json", ".ai/status.json" >>

\* What a status file can hold: nothing, bytes that do not decode, a payload
\* in the current format or in the legacy outcome+details format, or a
\* payload left by another attempt: one that decodes and whose ownership
\* fields (run_id, node_id, attempt_id) name a different stage or attempt.
FileContents == {NoStatus, "invalid", "valid", "legacy", "foreign"}

\* runtime.DecodeOutcomeJSON succeeds on the bytes read.
Decodes(b) == b \in {"valid", "legacy", "foreign"}

\* The canonical file as writeJSON leaves it: the decoded outcome of fallback k.
CopyOf(k) == "copy of " \o fallbackPaths[k]

\* copyFirstValidFallbackStatus is entered with any state of the files.
InitIngest ==
    /\ InitEngine({"retrygate"})
    /\ default_max_retry = 0
    /\ stageStatus \in {NoStatus, "stage"}
    /\ fallbackFile \in [1..Len(fallbackPaths) -> FileContents]
    /\ ingest = [IngestIdle EXCEPT !.pc = "stat"]
    /\ heartbeat = HeartbeatIdle
    /\ stageLog = <<>>
    /\ UnitsIdleExcept("")

\* os.Stat(stageStatusPath): an existing canonical file ends the ingestion.
IngestStat ==
    /\ ingest.pc = "stat"
    /\ ingest' = IF stageStatus # NoStatus
                 THEN [ingest EXCEPT !.pc = "done", !.ret = "canonical"]
                 ELSE [ingest EXCEPT !.pc = "read", !.i = 1]
    /\ UNCHANGED << engineVars, stageStatus, fallbackFile, heartbeat, stageLog, isolated >>

\* os.ReadFile(p) and DecodeOutcomeJSON: a missing or invalid fallback is
\* skipped; after the last one the result is "".
IngestRead ==
    /\ ingest.pc = "read"
    /\ ingest' = IF ingest.i > Len(fallbackPaths)
                 THEN [ingest EXCEPT !.pc = "done", !.ret = ""]
                 ELSE IF fallbackFile[ingest.i] # NoStatus /\ Decodes(fallbackFile[ingest.i])
                 THEN [ingest EXCEPT !.pc = "write"]
                 ELSE [ingest EXCEPT !.i = @ + 1]
    /\ UNCHANGED << engineVars, stageStatus, fallbackFile, heartbeat, stageLog, isolated >>

\* writeJSON(stageStatusPath, out): temp file and rename, or an error.
IngestWrite ==
    /\ ingest.pc = "write"
    /\ \E ok \in BOOLEAN :
         IF ok
         THEN /\ stageStatus' = CopyOf(ingest.i)
              /\ ingest' = [ingest EXCEPT !.pc = "remove"]
         ELSE /\ ingest' = [ingest EXCEPT !.pc = "done", !.err = "write failed"]
              /\ UNCHANGED stageStatus
    /\ UNCHANGED << engineVars, fallbackFile, heartbeat, stageLog, isolated >>

\* os.Remove(p) and return p.
IngestRemove ==
    /\ ingest.pc = "remove"
    /\ fallbackFile' = [fallbackFile EXCEPT ![ingest.i] = NoStatus]
    /\ ingest' = [ingest EXCEPT !.pc = "done", !.ret = fallbackPaths[ingest.i]]
    /\ UNCHANGED << engineVars, stageStatus, heartbeat, stageLog, isolated >>

\* Another writer (the stage's own status write, a process of the attempt)
\* creates the canonical file while the ingestion is running.
CanonicalAppears ==
    /\ ingest.pc \notin {"idle", "done"}
    /\ stageStatus = NoStatus
    /\ stageStatus' = "stage"
    /\ UNCHANGED << engineVars, fallbackFile, ingest, heartbeat, stageLog, isolated >>

NextIngest ==
    \/ IngestStat
    \/ IngestRead
    \/ IngestWrite
    \/ IngestRemove
    \/ CanonicalAppears

SpecIngest == InitIngest /\ [][NextIngest]_vars

\* C17: a status.json that exists at the canonical stage path is never
\* replaced: ingestion writes the canonical file only when it is absent, also
\* when the file appears after ingestion has begun.
C17_CanonicalNeverOverwritten ==
    [][stageStatus # NoStatus => stageStatus' = stageStatus]_vars

\* ------------------------------------------------ heartbeat lifecycle (C18)

StageEvent(name, a) == [event |-> name, attempt |-> a]

HeartbeatsOf(a) == CountIn(stageLog, StageEvent("stage_heartbeat", a))

InitHeartbeat ==
    /\ InitEngine({"retrygate"})
    /\ default_max_retry = 0
    /\ AuxIdle

\* The gate emits stage_attempt_start and the handler's runOnce starts the
\* process and the heartbeat goroutine with fresh channels.
AttemptStart ==
    /\ heartbeat.pc \in {"idle", "ended"}
    /\ ~heartbeat.ctxDone
    /\ heartbeat.attempt < MaxStageAttempts
    /\ stageLog' = Append(stageLog, StageEvent("stage_attempt_start", heartbeat.attempt + 1))
    /\ heartbeat' = [heartbeat EXCEPT
                       !.pc = "waiting",
                       !.attempt = @ + 1,
                       !.g[heartbeat.attempt + 1] =
                           [state |-> "running", heartbeatStop |-> FALSE,
                            heartbeatDone |-> FALSE]]
    /\ UNCHANGED << engineVars, stageStatus, fallbackFile, ingest, isolated >>

\* case <-ticker.C of attempt a's goroutine: emitHeartbeat.  select may take
\* this case whenever the ticker is ready, whatever else is ready.
HeartbeatTick(a) ==
    /\ heartbeat.g[a].state = "running"
    /\ HeartbeatsOf(a) < MaxHeartbeats
    /\ stageLog' = Append(stageLog, StageEvent("stage_heartbeat", a))
    /\ UNCHANGED << engineVars, stageStatus, fallbackFile, ingest, heartbeat, isolated >>

\* case <-heartbeatStop or <-ctx.Done(): the goroutine returns and the
\* deferred close(heartbeatDone) runs.
HeartbeatExit(a) ==
    /\ heartbeat.g[a].state = "running"
    /\ heartbeat.g[a].heartbeatStop \/ heartbeat.ctxDone
    /\ heartbeat' = [heartbeat EXCEPT !.g[a].state = "exited",
                                      !.g[a].heartbeatDone = TRUE]
    /\ UNCHANGED << engineVars, stageStatus, fallbackFile, ingest, stageLog, isolated >>

\* waitWithIdleWatchdog returns: the stage process has exited.
ProcessExit ==
    /\ heartbeat.pc = "waiting"
    /\ heartbeat' = [heartbeat EXCEPT !.pc = "closing"]
    /\ UNCHANGED << engineVars, stageStatus, fallbackFile, ingest, stageLog, isolated >>

\* close(heartbeatStop)
CloseStop ==
    /\ heartbeat.pc = "closing"
    /\ heartbeat' = [heartbeat EXCEPT !.pc = "joining",
                                      !.g[heartbeat.attempt].heartbeatStop = TRUE]
    /\ UNCHANGED << engineVars, stageStatus, fallbackFile, ingest, stageLog, isolated >>

\* runOnce goes on without waiting for the goroutine.
joined_noWait(gr) == TRUE

\* <-heartbeatDone can be received: the channel is closed.
joined(gr) == gr.heartbeatDone

\* <-heartbeatDone, then runOnce returns to the gate.
JoinHeartbeat ==
    /\ heartbeat.pc = "joining"
    /\ joined(heartbeat.g[heartbeat.attempt])
    /\ heartbeat' = [heartbeat EXCEPT !.pc = "returned"]
    /\ UNCHANGED << engineVars, stageStatus, fallbackFile, ingest, stageLog, isolated >>

\* The gate emits stage_attempt_end for the attempt.
AttemptEnd ==
    /\ heartbeat.pc = "returned"
    /\ stageLog' = Append(stageLog, StageEvent("stage_attempt_end", heartbeat.attempt))
    /\ heartbeat' = [heartbeat EXCEPT !.pc = "ended"]
    /\ UNCHANGED << engineVars, stageStatus, fallbackFile, ingest, isolated >>

\* The run context is canceled.
StageContextCancel ==
    /\ heartbeat.pc # "idle"
    /\ ~heartbeat.ctxDone
    /\ heartbeat' = [heartbeat EXCEPT !.ctxDone = TRUE]
    /\ UNCHANGED << engineVars, stageStatus, fallbackFile, ingest, stageLog, isolated >>

NextHeartbeat ==
    \/ AttemptStart
    \/ \E a \in 1..MaxStageAttempts : HeartbeatTick(a)
    \/ \E a \in 1..MaxStageAttempts : HeartbeatExit(a)
    \/ ProcessExit
    \/ CloseStop
    \/ JoinHeartbeat
    \/ AttemptEnd
    \/ StageContextCancel

SpecHeartbeat == InitHeartbeat /\ [][NextHeartbeat]_vars

\* C18: in the stage's event log no stage_heartbeat of an attempt comes after
\* that attempt's stage_attempt_end, and when the end event is emitted the
\* attempt's heartbeat goroutine has exited with its stop channel closed.
C18_NoHeartbeatAfterAttemptEnd ==
    \A a \in 1..MaxStageAttempts :
        /\ \A i, j \in DOMAIN stageLog :
              (i < j /\ stageLog[i] = StageEvent("stage_attempt_end", a))
                 => stageLog[j] # StageEvent("stage_heartbeat", a)
        /\ CountIn(stageLog, StageEvent("stage_attempt_end", a)) > 0
              => /\ heartbeat.g[a].state = "exited"
                 /\ heartbeat.g[a].heartbeatStop

\* Both attempts have emitted their heartbeats and ended, the second one's
\* heartbeats coming after the first one's end.
C18_Witness ==
    /\ HeartbeatsOf(1) = MaxHeartbeats
    /\ HeartbeatsOf(2) >= 1
    /\ CountIn(stageLog, StageEvent("stage_attempt_end", 1)) = 1
    /\ CountIn(stageLog, StageEvent("stage_attempt_end", 2)) = 1
    /\ ~heartbeat.ctxDone

\* ------------------------------------------------- attempt events (C19)

\* Positions of an event of node n and attempt a among the events of the
\* gate's current invocation.
GatePositions(e, name, n, a) ==
    { i \in DOMAIN GateEvents(e) : GateEvents(e)[i] = Ev(name, n, a) }

\* The engine is inside attempt a of its current node: the handler runs (for
\* the fan-out node, its branches run).
InAttempt(e, a) == pc[e] \in {"handler", "fanout_wait"} /\ attempt[e] = a

\* The gate of the current node has attempts behind it and is sleeping
\* before a retry or has returned.
GateBetweenAttempts(e) == pc[e] \in {"sleep", "gate_ret"}

\* C19: whenever an engine's attempt ends (the handler returns an outcome or
\* an error, the fan-out's branches have all returned), the step appends
\* stage_attempt_end for that node and attempt before anything else; and
\* when the gate sleeps before a retry or has returned (success, retry
\* blocked, budget exhausted, cancellation) every attempt of the invocation
\* has exactly one stage_attempt_start followed by exactly one
\* stage_attempt_end.
C19_AttemptEndBeforeReturn ==
    /\ [](\A e \in Engines :
            GateBetweenAttempts(e) =>
              \A a \in 1..attempt[e] :
                 /\ Cardinality(GatePositions(e, "stage_attempt_start", current[e], a)) = 1
                 /\ Cardinality(GatePositions(e, "stage_attempt_end", current[e], a)) = 1
                 /\ \A i \in GatePositions(e, "stage_attempt_start", current[e], a) :
                    \A k \in GatePositions(e, "stage_attempt_end", current[e], a) : i < k)
    /\ [][\A e \in Engines :
            (InAttempt(e, attempt[e]) /\ ~InAttempt(e, attempt[e])') =>
               /\ Len(progress'[e].ndjson) > Len(progress[e].ndjson)
               /\ progress'[e].ndjson[Len(progress[e].ndjson) + 1]
                    = Ev("stage_attempt_end", current[e], attempt[e])]_vars

\* The gate has returned on the cancellation path after a retry: the sleep
\* before a third attempt was cut short and the second attempt has its end.
C19_Witness ==
    /\ pc["main"] = "gate_ret"
    /\ attempt["main"] = 2
    /\ canceled # "none"
    /\ default_max_retry = MaxRetries
    /\ progress["main"].live.event = "stage_retry_sleep"
    /\ Cardinality(GatePositions("main", "stage_attempt_end", current["main"], 2)) = 1

\* ------------------------------------------------ transient retry (C20)

\* Events of the gate's current invocation between the end of attempt a and
\* the start of attempt a + 1.
BetweenAttempts(e, a) ==
    LET q == GateEvents(e)
        i == CHOOSE x \in GatePositions(e, "stage_attempt_end", current[e], a) : TRUE
        k == CHOOSE x \in GatePositions(e, "stage_attempt_start", current[e], a + 1) : TRUE
    IN SubSeq(q, i + 1, k - 1)

TransientFail(o) ==
    /\ o.status = StatusFail
    /\ normalizedFailureClassOrDefault(classifyFailureClass(o)) = failureClassTransientInfra

\* C20: when the first attempt of a node returns fail with class
\* transient_infra and the node has retry budget, the gate emits
\* stage_retry_sleep and sleeps; unless the run is canceled first the second
\* attempt starts (for a backoff that ends within the clock's horizon); the
\* events between the end of the first attempt and the
\* start of the second are exactly one stage_retry_sleep; and a second
\* attempt that returns success makes the gate return success at once.
C20_TransientRetriedOnce ==
    /\ [][ ( /\ pc["main"] = "handler"
             /\ pc'["main"] \notin {"handler", "finalize"}
             /\ attempt["main"] = 1
             /\ default_max_retry >= 1
             /\ TransientFail(out'["main"]) )
           => /\ pc'["main"] = "sleep"
              /\ progress'["main"].live = Ev("stage_retry_sleep", current["main"], 1) ]_vars
    /\ ( /\ pc["main"] = "sleep"
         /\ attempt["main"] = 1
         /\ canceled = "none"
         /\ sleepUntil["main"] <= MaxTime )
          ~> (attempt["main"] = 2 \/ canceled # "none")
    /\ []( (InGate("main") /\ attempt["main"] >= 2)
             => BetweenAttempts("main", 1) = << Ev("stage_retry_sleep", current["main"], 1) >> )
    /\ [][ ( /\ pc["main"] = "handler"
             /\ pc'["main"] \notin {"handler", "finalize"}
             /\ attempt["main"] = 2
             /\ out'["main"].status = StatusSuccess )
           => /\ pc'["main"] = "gate_ret"
              /\ out'["main"] = OutSuccess
              /\ attempt'["main"] = 2 ]_vars

\* The scripted run of the retry test: transient failure, one sleep, success
\* on the second attempt, gate returned.
C20_Witness ==
    /\ graph = "retrygate"
    /\ default_max_retry = 1
    /\ pc["main"] = "gate_ret"
    /\ attempt["main"] = 2
    /\ out["main"].status = StatusSuccess
    /\ canceled = "none"
    /\ CountEvents(GateEvents("main"), "stage_retry_sleep", "r") = 1

\* ---------------------------------------------------------------------- C21

KnownFailureClasses ==
    {failureClassTransientInfra, failureClassDeterministic, failureClassCanceled}

\* A fail or retry outcome without a usable failure class.
UnclassifiedFailure(o) ==
    /\ o.status \in {StatusFail, StatusRetry}
    /\ classifyFailureClass(o) \notin KnownFailureClasses

\* C21: a fail or retry outcome whose failure class is missing, empty or
\* unknown is normalised to deterministic, and the retry gate never retries
\* it: the gate returns at once without a backoff sleep, it emits
\* stage_retry_blocked when budget was left, and the attempt counter stays
\* where the unclassified outcome arrived.
C21_UnknownClassFailsClosed ==
    /\ \A e \in Engines :
          (InGate(e) /\ pc[e] # "handler" /\ UnclassifiedFailure(out[e]))
          => /\ normalizedFailureClassOrDefault(classifyFailureClass(out[e]))
                  = failureClassDeterministic
             /\ ~shouldRetryOutcome(out[e], classifyFailureClass(out[e]))
             /\ pc[e] = "gate_ret"
             /\ sleepUntil[e] = 0
             /\ progress[e].live.event # "stage_retry_sleep"
             /\ attempt[e] < maxAttempts(e) =>
                    progress[e].live = Ev("stage_retry_blocked", current[e], attempt[e])
             /\ CountEvents(GateEvents(e), "stage_retry_sleep", current[e])
                    = attempt[e] - 1

\* A retry outcome without a class, on the first attempt of a node that has
\* its whole retry budget left.
C21_Witness ==
    /\ graph = "retrygate"
    /\ pc["main"] = "gate_ret"
    /\ current["main"] = "r"
    /\ default_max_retry = MaxRetries
    /\ attempt["main"] = 1
    /\ out["main"].status = StatusRetry
    /\ classifyFailureClass(out["main"]) = ""
    /\ CountEvents(GateEvents("main"), "stage_retry_blocked", "r") = 1

\* ---------------------------------------------------------------------- C22

LoopRestarted == restartCount' = restartCount + 1

\* C22: every allowed loop restart empties the per-node retry counters, so in
\* the restarted iteration the counter of the node in the retry gate counts
\* the retries of this iteration only (attempt - 1 while the handler runs,
\* one more once a retry has been granted) and the gate can again
\* run up to max_retries + 1 attempts, whatever the node had used before the
\* restart.
C22_RestartResetsRetryBudget ==
    /\ [][LoopRestarted =>
            /\ nodeRetries'["main"] = <<>>
            /\ pc'["main"] = "top"
            /\ progress'["main"].live.event = "loop_restart"]_vars
    /\ []((graph = "restart" /\ InGate("main") /\ current["main"] = "impl")
          => /\ Get(nodeRetries["main"], "impl") \in {attempt["main"] - 1, attempt["main"]}
             /\ pc["main"] = "handler" =>
                    Get(nodeRetries["main"], "impl") = attempt["main"] - 1
             /\ Get(nodeRetries["main"], "impl") <= default_max_retry
             /\ attempt["main"] <= maxAttempts("main"))

\* impl used its whole budget before the restart (MaxRetries sleeps) and has
\* used it up again in the restarted iteration.
C22_Witness ==
    /\ graph = "restart"
    /\ default_max_retry = MaxRetries
    /\ restartCount = 1
    /\ pc["main"] = "handler"
    /\ current["main"] = "impl"
    /\ attempt["main"] = maxAttempts("main")
    /\ Get(nodeRetries["main"], "impl") = MaxRetries
    /\ CountEvents(progress["main"].ndjson, "stage_retry_sleep", "impl") = 2 * MaxRetries
    /\ CountEvents(progress["main"].ndjson, "loop_restart", "impl") = 1

\* ------------------------------------------- fan-in handler (C23 and C24)

\* Outcomes with which a branch may reach the fan-in.
FanInBranchOutcomes ==
    { OutSuccess,
      Outcome(StatusPartialSuccess, "", "", "", NoUpdate),
      Outcome(StatusRetry, failureClassTransientInfra, "r1", "", failureClassTransientInfra),
      Outcome(StatusRetry, failureClassDeterministic, "r1", "", failureClassDeterministic),
      Outcome(StatusFail, failureClassTransientInfra, "r1", "", failureClassTransientInfra),
      Outcome(StatusFail, failureClassDeterministic, "r1", "", failureClassDeterministic),
      Outcome(StatusFail, failureClassCanceled, "r1", "", failureClassCanceled),
      Outcome(StatusFail, "", "r1", "", NoUpdate),
      Outcome(StatusFail, "bogus", "r1", "", NoUpdate),
      Outcome(StatusFail, "", "r1", "", failureClassTransientInfra) }

\* The fan-in handler is called with the results of the branches in the
\* context (parallel.results).
InitFanIn ==
    /\ InitEngine({"parallel"})
    /\ default_max_retry = 0
    /\ error_policy = "continue"
    /\ stageStatus = NoStatus
    /\ fallbackFile = [k \in 1..2 |-> NoStatus]
    /\ ingest = IngestIdle
    /\ heartbeat = HeartbeatIdle
    /\ stageLog = <<>>
    /\ \E r \in [Branches -> FanInBranchOutcomes] :
         fanIn = [pc |-> "call",
                  results |-> [b \in Branches |->
                                 [returned |-> TRUE, last_node |-> G.branch_start[b],
                                  outcome |-> r[b], err |-> ""]],
                  winner |-> "", out |-> NoOutcome]
    /\ UnitsIdleExcept("fanIn")

\* ParallelFanInHandler.Execute: pick the winner, or aggregate the failures.
FanInExecute ==
    /\ fanIn.pc = "call"
    /\ fanIn' = [fanIn EXCEPT !.pc = "done",
                              !.winner = selectHeuristicWinner(fanIn.results),
                              !.out = FanInOutcome(fanIn.results)]
    /\ OnlyUnit("fanIn")

NextFanIn == FanInExecute

SpecFanIn == InitFanIn /\ [][NextFanIn]_vars

FanInStatus(b) == fanIn.results[b].outcome.status

FanInClass(b) == classifyFailureClass(fanIn.results[b].outcome)

\* C23: when every branch reaching the fan-in has failed, the fan-in fails
\* with signature parallel_all_failed and its failure class -- in the
\* outcome's metadata and in its context update alike -- is transient_infra
\* exactly when the class of every branch is transient_infra, deterministic
\* otherwise.
C23_AllFailAggregateClass ==
    (fanIn.pc = "done" /\ \A b \in Branches : FanInStatus(b) = StatusFail)
    => /\ fanIn.out.status = StatusFail
       /\ fanIn.out.sig_hint = "parallel_all_failed"
       /\ fanIn.out.cu_class = fanIn.out.class
       /\ fanIn.out.class \in {failureClassTransientInfra, failureClassDeterministic}
       /\ fanIn.out.class = failureClassTransientInfra
            <=> \A b \in Branches : FanInClass(b) = failureClassTransientInfra

\* One branch failed transient_infra, the other without a class: deterministic.
C23_Witness ==
    /\ fanIn.pc = "done"
    /\ FanInStatus("b1") = StatusFail
    /\ FanInStatus("b2") = StatusFail
    /\ FanInClass("b1") = failureClassTransientInfra
    /\ FanInClass("b2") = ""
    /\ fanIn.out.class = failureClassDeterministic

\* C24, as the code has it: the fan-in selects a winner only among the
\* branches whose status is not fail (success, partial_success or retry), and
\* it selects one whenever such a branch exists; when every branch has status
\* fail it selects no winner and fails with the all-fail aggregate.
C24_WinnerUnlessAllFail ==
    fanIn.pc = "done"
    => /\ fanIn.winner # "" => FanInStatus(fanIn.winner) # StatusFail
       /\ (\E b \in Branches : FanInStatus(b) # StatusFail)
            => /\ fanIn.winner # ""
               /\ fanIn.out.sig_hint # "parallel_all_failed"
       /\ (\A b \in Branches : FanInStatus(b) = StatusFail)
            => /\ fanIn.winner = ""
               /\ fanIn.out.status = StatusFail
               /\ fanIn.out.sig_hint = "parallel_all_failed"

\* A retry branch wins against a failed one.
C24_Witness ==
    /\ fanIn.pc = "done"
    /\ FanInStatus("b1") = StatusFail
    /\ FanInStatus("b2") = StatusRetry
    /\ fanIn.winner = "b2"

\* C24 as stated: the fan-in selects a winner only among the branches whose status is
\* success or partial_success; when no branch has such a status it selects
\* no winner and fails with the all-fail aggregate.
C24_WinnerOnlySuccess ==
    fanIn.pc = "done"
    => /\ fanIn.winner # "" =>
            FanInStatus(fanIn.winner) \in {StatusSuccess, StatusPartialSuccess}
       /\ (\A b \in Branches : FanInStatus(b) \notin {StatusSuccess, StatusPartialSuccess})
            => /\ fanIn.winner = ""
               /\ fanIn.out.status = StatusFail
               /\ fanIn.out.sig_hint = "parallel_all_failed"

\* ---------------------------------------------------------------------- C25

\* The main loop is about to route a failure of work that no edge matches.
UnroutedFailure ==
    /\ graph = "route"
    /\ pc["main"] = "resolve"
    /\ current["main"] = "work"
    /\ out["main"].status \in {StatusFail, StatusRetry}
    /\ selectNextEdge(G, "work", out["main"], ctx["main"]) = 0

FirstSet(q) ==
    IF \E i \in DOMAIN q : q[i] # ""
    THEN q[Min({i \in DOMAIN q : q[i] # ""})]
    ELSE ""

RoutedTo(target) ==
    IF target = ""
    THEN pc'["main"] = "finalize" /\ current'["main"] = "work"
    ELSE pc'["main"] = "top" /\ current'["main"] = target

BranchHandlerInterrupted(e) == contextError(e) /\ HandlerReturn(e)

\* One step of the goroutine that runs a branch: runSubgraphUntil and the
\* retry gate it calls.  A handler is only known to return once its context
\* is canceled; the backoff sleep is a timer.
BranchStep(e) ==
    \/ SubTop(e)
    \/ BranchHandlerInterrupted(e)
    \/ SleepWake(e)
    \/ SubApply(e)
    \/ SubCheckpoint(e)
    \/ SubSelect(e)

\* Scheduling of a fan-out: every branch is a goroutine that keeps running.
FairBranches == \A e \in Branches : WF_vars(BranchStep(e))

InitBranches ==
    /\ InitOn(ParallelGraphNames)
    /\ default_max_retry = 1

\* Steps of a run with a fan-out and no stall timeout configured: the
\* watchdog is not started and only the caller cancels the run.
NextBranches ==
    \/ Preflight
    \/ MainTop
    \/ HandlerReturn("main")
    \/ SleepWake("main")
    \/ HandlerFatal
    \/ MainApply
    \/ MainCheckpoint
    \/ MainResolve
    \/ Finalize
    \/ ContextCancel
    \/ FanOut
    \/ \E e \in Branches : HandlerReturn(e)
    \/ \E e \in Branches : SleepWake(e)
    \/ \E e \in Branches : SubTop(e)
    \/ \E e \in Branches : SubApply(e)
    \/ \E e \in Branches : SubCheckpoint(e)
    \/ \E e \in Branches : SubSelect(e)
    \/ FanOutJoin

SpecBranchesFair == InitBranches /\ [][NextBranches]_vars /\ FairBranches

BranchRunning(e) == pc[e] \notin {"idle", "returned"}

\* Steps a branch can still take before its traversal returns, once its
\* context is canceled.
StepsToReturn(e) ==
    CASE pc[e] = "handler" -> 3
      [] pc[e] = "sleep" -> 2
      [] pc[e] \in {"top", "gate_ret", "checkpoint", "select"} -> 1
      [] OTHER -> 0

\* C26: once the run is canceled, a running branch never enters another
\* stage (no new loop iteration, attempt or completed node): each of its
\* steps brings it closer to the return of its traversal, at most three steps
\* away (end of the handler, end of the sleep, the check of ctx.Err()), and
\* the traversal does return.
C26_BranchesStopAfterCancel ==
    /\ [][\A e \in Branches :
            (canceled # "none" /\ BranchRunning(e) /\ pc'[e] # pc[e])
            => /\ StepsToReturn(e)' < StepsToReturn(e)
               /\ steps'[e] = steps[e]
               /\ attempt'[e] = attempt[e]
               /\ completed'[e] = completed[e]
               /\ CountEvents(progress'[e].ndjson, "stage_attempt_start", current[e])
                    = CountEvents(progress[e].ndjson, "stage_attempt_start", current[e])]_vars
    /\ \A e \in Branches :
          (canceled # "none" /\ BranchRunning(e)) ~> pc[e] = "returned"

\* The run was canceled while the branch was inside a handler; the branch
\* has returned with that stage as its last one, not completed.
C26_Witness ==
    /\ canceled # "none"
    /\ pc["b1"] = "returned"
    /\ results["b1"].err = "context canceled"
    /\ current["b1"] = "a1"
    /\ steps["b1"] = 1
    /\ out["b1"].status = StatusFail
    /\ completed["b1"] = <<>>
    /\ progress["b1"].live.event = "stage_attempt_end"

\* ---------------------------------------------------------------------- C27

\* C27: final.json is written once: from the moment it exists it never
\* changes, and after a second invocation of finalize it still holds the
\* terminal outcome of the first one.
C27_FinalWrittenOnce ==
    /\ [][final.exists => final' = final]_vars
    /\ [](pc["main"] \in {"done", "closed"} =>
            /\ final.exists
            /\ final.status = finalStatus(pending)
            /\ final.failure_reason = pending.failure_reason
            /\ final.cause = pending.cause)

\* The run ended with success at the exit node; the cancellation path then
\* invoked finalize once more.
C27_Witness ==
    /\ pc["main"] = "closed"
    /\ canceled = "context"
    /\ pending.cause = "exit"
    /\ final.exists
    /\ final.status = StatusSuccess
    /\ final.cause = "exit"

\* ---------------------------------------------------------------------- C28

\* C28: the outcome of a tool node is success or a failure of class
\* deterministic, and the retry gate never retries the failure: it returns
\* without a backoff sleep even when the node has retry budget left.
C28_ToolFailureNotRetried ==
    \A e \in Engines :
        (current[e] \in G.nodes /\ G.type[current[e]] = "tool"
            /\ pc[e] \in {"sleep", "gate_ret"})
        => /\ out[e].status \in {StatusSuccess, StatusFail}
           /\ out[e].status = StatusFail =>
                /\ classifyFailureClass(out[e]) = failureClassDeterministic
                /\ pc[e] = "gate_ret"
                /\ CountEvents(GateEvents(e), "stage_retry_sleep", current[e]) = 0

\* The traversal of branch e has chosen, after a failure, an edge with
\* loop_restart=true that does not lead to the stop node.
BranchRestartChosen(e) ==
    /\ pc[e] = "select"
    /\ out[e].status = StatusFail
    /\ LET i == selectNextEdge(G, current[e], out[e], ctx[e])
       IN i # 0 /\ G.edges[i].to # G.join /\ G.edges[i].loop_restart

\* The restart policy of the main loop would allow a restart for the failure
\* of branch e.
BranchRestartAllowed(e) ==
    /\ loopRestartClassAllowed(out[e])
    /\ ~restartCapReached(restartCount, max_restarts)
    /\ ~branchContextError(e)

\* C29 (amended): inside a parallel branch, a failure routed over a
\* loop_restart=true edge aborts the branch with the error "loop_restart not
\* supported in v1", whatever the failure class and the restart limits: no
\* restart is counted, no retry budget is reset, no event is emitted and the
\* edge is not followed.
C29_BranchRestartAborts ==
    [][\A e \in Branches :
         (BranchRestartChosen(e) /\ pc'[e] # "select")
         => /\ pc'[e] = "returned"
            /\ results'[e].err = "loop_restart not supported in v1"
            /\ current'[e] = current[e]
            /\ restartCount' = restartCount
            /\ nodeRetries'[e] = nodeRetries[e]
            /\ progress'[e] = progress[e]]_vars

\* A branch was aborted at a loop_restart edge although its failure was of
\* class transient_infra and the restart limits were not reached.
C29_Witness ==
    \E e \in Branches :
        /\ pc[e] = "returned"
        /\ results[e].err = "loop_restart not supported in v1"
        /\ out[e].status = StatusFail
        /\ loopRestartClassAllowed(out[e])
        /\ ~restartCapReached(restartCount, max_restarts)
        /\ canceled = "none" /\ ~branchCancel

\* C29 (as stated): inside a parallel branch, a failure routed over a
\* loop_restart=true edge is handled by the restart policy of the main loop:
\* when the class is transient_infra and the limits allow it, the branch
\* restarts at the edge target instead of being aborted.
C29_BranchRestartPolicy ==
    [][\A e \in Branches :
         (BranchRestartChosen(e) /\ BranchRestartAllowed(e) /\ pc'[e] # "select")
         => /\ pc'[e] = "top"
            /\ current'[e] = G.edges[selectNextEdge(G, current[e], out[e], ctx[e])].to]_vars

\* The ownership fields of payload b, when present, name the stage attempt
\* that is ingesting it.
OwnedByAttempt(b) == b # "foreign"

\* C30: a stage attempt only uses a status payload produced for that same
\* (run, node, attempt): the fallback payload that ingestion accepts and
\* copies to the canonical path never carries ownership fields that name a
\* different stage or attempt.
C30_StatusOwnedByAttempt ==
    ingest.pc \in {"write", "remove"} => OwnedByAttempt(fallbackFile[ingest.i])

\* ------------------------------------------- conditional pass-through (C31)

\* The handler of a conditional node returns at engine e in this step.
ConditionalReturns(e) ==
    /\ pc[e] = "handler"
    /\ current[e] \in G.nodes
    /\ G.type[current[e]] = "conditional"
    /\ pc'[e] \in {"gate_ret", "sleep"}

\* C31: a conditional node produces an outcome that carries the previous
\* node's status, preferred_label, failure_reason and failure_class
\* unchanged, in the main loop and in a branch alike.
C31_ConditionalPreservesCause ==
    [][\A e \in Engines :
         ConditionalReturns(e)
         => /\ out'[e].status = out[e].status
            /\ out'[e].label = out[e].label
            /\ out[e].status \in {StatusFail, StatusRetry}
                 => /\ out'[e].reason = out[e].reason
                    /\ classifyFailureClass(out'[e])
                         = normalizedFailureClassOrDefault(classifyFailureClass(out[e]))]_vars

\* --------------------------------------------- agent-loop turn budget (C32)

\* Largest max_agent_turns, multiplier and max_extensions of a stage, and the
\* largest number of turns the scripted client needs.
MaxAgentTurns == 2

MaxMultiplier == 3

MaxExtensions == 2

MaxTurnsNeeded == 20

\* agent.ErrTurnLimit
ErrTurnLimit == "turn limit reached"

\* resolveTurnBudgetPolicy: enabled, multiplier, maxExtensions.
TurnBudgetPolicies ==
    [enabled : BOOLEAN, multiplier : 2..MaxMultiplier, maxExtensions : 0..MaxExtensions]

\* Session.SetMaxTurns: the ceiling is only ever raised.
SetMaxTurns(cfgMaxTurns, maxTurns) ==
    IF maxTurns <= 0 THEN cfgMaxTurns
    ELSE IF maxTurns <= cfgMaxTurns THEN cfgMaxTurns
    ELSE maxTurns

\* Session.processOneInput: the session goes on from the turns it has taken
\* (the counter is not reset) until the client is done after need turns, or
\* the counter reaches MaxTurns.
processOneInput(used, need, cfgMaxTurns) ==
    IF need <= cfgMaxTurns
    THEN [used |-> need, err |-> ""]
    ELSE [used |-> IF used > cfgMaxTurns THEN used ELSE cfgMaxTurns, err |-> ErrTurnLimit]

\* The extension loop goes on whatever the number of extensions.
extensionAllowed_uncapped(ext, policy, runErr) == runErr = ErrTurnLimit

\* ext < policy.maxExtensions && errors.Is(runErr, agent.ErrTurnLimit)
extensionAllowed(ext, policy, runErr) ==
    ext < policy.maxExtensions /\ runErr = ErrTurnLimit

\* classifyCodergenFailure of the error of markTurnBudgetExhausted.
TurnBudgetExhausted ==
    [class |-> failureClassDeterministic, code |-> "turn_budget_exhausted",
     signature |-> "agent_turn_limit|api|exhausted"]

NoFailure == [class |-> "", code |-> "", signature |-> ""]

\* A codergen stage of the agent loop is about to call sess.ProcessInput.
InitTurn ==
    /\ InitEngine({"retrygate"})
    /\ default_max_retry = 0
    /\ stageStatus = NoStatus
    /\ fallbackFile = [k \in 1..2 |-> NoStatus]
    /\ ingest = IngestIdle
    /\ heartbeat = HeartbeatIdle
    /\ stageLog = <<>>
    /\ UnitsIdleExcept("turn")
    /\ \E policy \in TurnBudgetPolicies, m \in 1..MaxAgentTurns, need \in 1..MaxTurnsNeeded :
         turn = [pc |-> "process", policy |-> policy, initial |-> m, need |-> need,
                 cfgMaxTurns |-> m, current |-> m, ext |-> 0, used |-> 0,
                 userInputs |-> 0, runErr |-> "", events |-> <<>>,
                 failure |-> NoFailure]

\* text, runErr := sess.ProcessInput(ctx, prompt)
TurnProcessInput ==
    /\ turn.pc = "process"
    /\ LET r == processOneInput(turn.used, turn.need, turn.cfgMaxTurns)
       IN turn' = [turn EXCEPT !.used = r.used, !.runErr = r.err,
                               !.userInputs = @ + 1,
                               !.current = turn.cfgMaxTurns,
                               !.pc = IF r.err = ErrTurnLimit /\ turn.policy.enabled
                                      THEN "extend" ELSE "return"]
    /\ OnlyUnit("turn")

\* One iteration of the extension loop: SetMaxTurns(current * multiplier),
\* the turn_budget_extended event, then sess.Continue in the same session.
TurnExtend ==
    /\ turn.pc = "extend"
    /\ IF extensionAllowed(turn.ext, turn.policy, turn.runErr)
       THEN LET next == turn.current * turn.policy.multiplier
                raised == SetMaxTurns(turn.cfgMaxTurns, next)
                r == processOneInput(turn.used, turn.need, raised)
            IN turn' = [turn EXCEPT !.cfgMaxTurns = raised,
                                    !.events = Append(@, [from |-> turn.current, to |-> next,
                                                          extension |-> turn.ext + 1]),
                                    !.current = next,
                                    !.ext = @ + 1,
                                    !.used = r.used, !.runErr = r.err]
       ELSE turn' = [turn EXCEPT !.pc = "return"]
    /\ OnlyUnit("turn")

\* A turn limit that is still standing becomes the stage's failure.
TurnReturn ==
    /\ turn.pc = "return"
    /\ turn' = [turn EXCEPT !.pc = "done",
                            !.failure = IF turn.runErr = ErrTurnLimit
                                        THEN TurnBudgetExhausted ELSE NoFailure]
    /\ OnlyUnit("turn")

NextTurn ==
    \/ TurnProcessInput
    \/ TurnExtend
    \/ TurnReturn

SpecTurn == InitTurn /\ [][NextTurn]_vars

\* C32: with auto-extension enabled the turn budget is extended at most
\* max_extensions times, each time from the current budget to current x
\* multiplier in the one session of the stage; a turn limit hit again after
\* the last allowed extension ends the stage with the deterministic failure
\* turn_budget_exhausted, and a stage that fits the budget does not fail.
C32_TurnBudgetExtensionCapped ==
    LET n == Len(turn.events)
    IN turn.pc # "idle" =>
         /\ n <= turn.policy.maxExtensions
         /\ ~turn.policy.enabled => n = 0
         /\ \A i \in 1..n :
              /\ turn.events[i].to = turn.events[i].from * turn.policy.multiplier
              /\ turn.events[i].from = IF i = 1 THEN turn.initial ELSE turn.events[i - 1].to
         /\ turn.cfgMaxTurns = IF n = 0 THEN turn.initial ELSE turn.events[n].to
         /\ turn.used <= turn.cfgMaxTurns
         /\ turn.userInputs <= 1
         /\ turn.pc = "done" =>
              /\ turn.need > turn.cfgMaxTurns <=> turn.failure = TurnBudgetExhausted
              /\ turn.need <= turn.cfgMaxTurns <=> turn.failure = NoFailure
              /\ (turn.failure = TurnBudgetExhausted /\ turn.policy.enabled)
                   => n = turn.policy.maxExtensions

\* A stage whose budget was extended as often as allowed and still ran into
\* the turn limit.
C32_Witness ==
    /\ turn.pc = "done"
    /\ turn.policy.enabled
    /\ turn.policy.maxExtensions >= 1
    /\ Len(turn.events) = turn.policy.maxExtensions
    /\ turn.failure = TurnBudgetExhausted
    /\ turn.used > turn.initial

\* ------------------------------------------------------------- resume (C33)

IsStart(ev) == ev.event = "stage_attempt_start"

\* The stage_attempt_start events recorded since the run was resumed.
StartsSinceResume ==
    SelectSeq(SubSeq(progress["main"].ndjson, resume.from + 1,
                     Len(progress["main"].ndjson)), IsStart)

\* The nodes the traversal can move to from n: the targets of n's edges.
Successors(n) == { G.edges[i].to : i \in { j \in DOMAIN G.edges : G.edges[j].from = n } }

\* C33 (amended): a resumed run keeps the completed nodes of the checkpoint
\* and continues at a node that an edge leads to from the last checkpointed
\* one; every stage it then starts is a further attempt of the same node or
\* the target of an edge from the node before, so a node listed as completed
\* in the checkpoint is executed again only when the traversal routes back
\* to it, as in a fail loop.
C33_ResumeContinuesAfterCheckpoint ==
    resume.done =>
        LET st == StartsSinceResume
        IN /\ SubSeq(completed["main"], 1, Len(resume.completed)) = resume.completed
           /\ \A i \in 1..Len(st) :
                LET prev == IF i = 1 THEN resume.node ELSE st[i - 1].node_id
                IN \/ st[i].node_id \in Successors(prev)
                   \/ i > 1 /\ st[i].node_id = prev

\* A resumed run has started the node after the last checkpointed one, which
\* was not completed before.
C33_Witness ==
    /\ resume.done
    /\ Len(resume.completed) >= 2
    /\ Len(StartsSinceResume) >= 1
    /\ StartsSinceResume[1].node_id \notin Range(resume.completed)
    /\ StartsSinceResume[1].node_id \in Successors(resume.node)

\* C33 (as stated): after a resume no node listed as completed in the
\* checkpoint is executed again.
C33_NoCompletedNodeExecutedAgain ==
    resume.done =>
        \A i \in 1..Len(StartsSinceResume) :
            StartsSinceResume[i].node_id \notin Range(resume.completed)

\* ------------------------------- appendProgress step by step (C34, C37, C40)

\* The goroutines that record progress: the main traversal and the two
\* branch traversals, each on its own engine.
Goroutines == {"main", "b1", "b2"}

\* The engine whose appendProgress the goroutine calls.
engineOf(g) == g

\* Calls of appendProgress by the goroutines together.
MaxEvents == 2

\* The branch's sink calls appendProgress of the branch engine itself.
sinkTarget_self(e) == e

\* exec.Engine of branchEng.progressSink: the engine that runs the fan-out.
sinkTarget(e) == "main"

\* The mutex does not exclude anybody.
mutexAvailable_always(holder) == TRUE

\* e.progressMu.Lock() returns once nobody holds the mutex.
mutexAvailable(holder) == holder = ""

\* lastProgressAt is left as it was.
stampProgress_keep(last, t) == last

\* e.lastProgressAt = now
stampProgress(last, t) == t

Frame(e, ev) == [e |-> e, ev |-> ev, now |-> ZeroTime, pc |-> "start"]

Top(g) == prog.calls[g].stack[Len(prog.calls[g].stack)]

InCall(g) == prog.calls[g].stack # <<>>

At(g, where) == InCall(g) /\ Top(g).pc = where

Push(g, f) == [prog.calls EXCEPT ![g].stack = Append(@, f)]

Pop(g) == [prog.calls EXCEPT ![g].stack = SubSeq(@, 1, Len(@) - 1)]

Goto(g, where) == [prog.calls EXCEPT ![g].stack[Len(prog.calls[g].stack)].pc = where]

\* Engines with and without a logs root (branch b2 always has one); nothing
\* is recorded yet.
InitProgress ==
    /\ InitEngine({"retrygate"})
    /\ default_max_retry = 0
    /\ stageStatus = NoStatus
    /\ fallbackFile = [k \in 1..2 |-> NoStatus]
    /\ ingest = IngestIdle
    /\ heartbeat = HeartbeatIdle
    /\ stageLog = <<>>
    /\ UnitsIdleExcept("prog")
    /\ \E roots \in { r \in [Engines -> {"", "logs"}] : r["b2"] = "logs" } :
         prog = [roots |-> roots,
                 mu |-> [e \in Engines |-> ""],
                 files |-> [e \in Engines |->
                              [ndjson |-> <<>>, live |-> NoEvent,
                               lastProgressAt |-> ZeroTime]],
                 recorded |-> [e \in Engines |-> <<>>],
                 calls |-> [g \in Goroutines |-> [stack |-> <<>>]],
                 left |-> MaxEvents,
                 clock |-> 1]

\* A goroutine calls e.appendProgress(ev).
ProgCall(g) ==
    /\ ~InCall(g)
    /\ prog.left > 0
    /\ \E m \in BOOLEAN :
         prog' = [prog EXCEPT
                    !.calls = Push(g, Frame(engineOf(g),
                                            [Ev("progress", g, prog.left)
                                               EXCEPT !.marshalable = m])),
                    !.left = @ - 1]
    /\ OnlyUnit("prog")

\* now := time.Now(), later than every time read before; the LogsRoot == ""
\* path and json.Marshal.
ProgStart(g) ==
    /\ At(g, "start")
    /\ LET f == Top(g)
           next == IF prog.roots[f.e] = ""
                   THEN IF HasSink(f.e) THEN "sink" ELSE "return"
                   ELSE IF ~f.ev.marshalable THEN "return" ELSE "lock"
       IN prog' = [prog EXCEPT
                     !.calls[g].stack[Len(prog.calls[g].stack)] =
                         [f EXCEPT !.now = prog.clock, !.pc = next],
                     !.clock = @ + 1]
    /\ OnlyUnit("prog")

\* e.progressMu.Lock(); e.lastProgressAt = now
ProgLock(g) ==
    /\ At(g, "lock")
    /\ LET f == Top(g)
       IN /\ mutexAvailable(prog.mu[f.e])
          /\ prog' = [prog EXCEPT
                        !.mu[f.e] = g,
                        !.files[f.e].lastProgressAt = stampProgress(@, f.now),
                        !.recorded[f.e] = Append(@, f.ev),
                        !.calls = Goto(g, "append")]
    /\ OnlyUnit("prog")

\* Append the line to progress.ndjson.
ProgAppend(g) ==
    /\ At(g, "append")
    /\ LET f == Top(g)
       IN prog' = [prog EXCEPT !.files[f.e].ndjson = Append(@, f.ev),
                               !.calls = Goto(g, "live")]
    /\ OnlyUnit("prog")

\* Overwrite live.json with the event.
ProgLive(g) ==
    /\ At(g, "live")
    /\ LET f == Top(g)
       IN prog' = [prog EXCEPT !.files[f.e].live = f.ev,
                               !.calls = Goto(g, IF HasSink(f.e) THEN "sink" ELSE "unlock")]
    /\ OnlyUnit("prog")

\* sink(sinkEvent): the sink tags its copy and calls appendProgress of the
\* parent; with a logs root the caller still holds its own mutex.
ProgSink(g) ==
    /\ At(g, "sink")
    /\ LET f == Top(g)
           after == IF prog.roots[f.e] = "" THEN "return" ELSE "unlock"
       IN prog' = [prog EXCEPT
                     !.calls[g].stack =
                         Append([@ EXCEPT ![Len(@)].pc = after],
                                Frame(sinkTarget(f.e), Tagged(f.ev, f.e)))]
    /\ OnlyUnit("prog")

\* The deferred e.progressMu.Unlock(), and the return.
ProgUnlock(g) ==
    /\ At(g, "unlock")
    /\ prog' = [prog EXCEPT !.mu[Top(g).e] = "", !.calls = Pop(g)]
    /\ OnlyUnit("prog")

\* A return that holds no mutex.
ProgReturn(g) ==
    /\ At(g, "return")
    /\ prog' = [prog EXCEPT !.calls = Pop(g)]
    /\ OnlyUnit("prog")

\* One step of goroutine g inside appendProgress.
ProgStep(g) ==
    \/ ProgStart(g)
    \/ ProgLock(g)
    \/ ProgAppend(g)
    \/ ProgLive(g)
    \/ ProgSink(g)
    \/ ProgUnlock(g)
    \/ ProgReturn(g)

NextProgress ==
    \/ \E g \in Goroutines : ProgCall(g)
    \/ \E g \in Goroutines : ProgStart(g)
    \/ \E g \in Goroutines : ProgLock(g)
    \/ \E g \in Goroutines : ProgAppend(g)
    \/ \E g \in Goroutines : ProgLive(g)
    \/ \E g \in Goroutines : ProgSink(g)
    \/ \E g \in Goroutines : ProgUnlock(g)
    \/ \E g \in Goroutines : ProgReturn(g)

SpecProgress == InitProgress /\ [][NextProgress]_vars

\* The scheduler keeps running some goroutine that can take a step.
FairProgress == WF_vars(\E g \in Goroutines : ProgStep(g))

\* Every engine has a logs root, so that every mutex is taken.
InitProgressFair ==
    /\ InitProgress
    /\ \A e \in Engines : prog.roots[e] = "logs"

SpecProgressFair == InitProgressFair /\ [][NextProgress]_vars /\ FairProgress

\* No call is in progress at engine e.
Quiescent(e) ==
    /\ prog.mu[e] = ""
    /\ \A g \in Goroutines :
         \A i \in DOMAIN prog.calls[g].stack : prog.calls[g].stack[i].e # e

\* C34: after any sequence of progress events recorded by one engine, events
\* forwarded concurrently from several branches included, progress.ndjson
\* holds those events one per line in the order in which they were recorded,
\* and live.json holds exactly the last of those lines.
C34_ProgressLinesInOrder ==
    \A e \in Engines :
        /\ \A i \in DOMAIN prog.files[e].ndjson :
             i <= Len(prog.recorded[e]) /\ prog.files[e].ndjson[i] = prog.recorded[e][i]
        /\ Quiescent(e) =>
             /\ prog.files[e].ndjson = prog.recorded[e]
             /\ prog.files[e].live =
                  IF prog.recorded[e] = <<>> THEN NoEvent
                  ELSE prog.recorded[e][Len(prog.recorded[e])]

\* The parent has recorded the events of both branches, forwarded while
\* both calls were in progress, and its own log is at rest.
C34_Witness ==
    /\ Quiescent("main")
    /\ Len(prog.files["main"].ndjson) = 2
    /\ prog.files["main"].ndjson[1].branch_key = "b2"
    /\ prog.files["main"].ndjson[2].branch_key = "b1"
    /\ prog.files["main"].live.branch_key = "b1"
    /\ Len(prog.files["b1"].ndjson) = 1
    /\ Len(prog.files["b2"].ndjson) = 1

\* The call on top of g's stack returns in this step.
CallReturns(g) ==
    /\ InCall(g)
    /\ Top(g).pc \in {"unlock", "return"}
    /\ Len(prog'.calls[g].stack) < Len(prog.calls[g].stack)

\* The call on top of g's stack records its event: the engine has a logs
\* root and the event can be marshalled.
Records(g) == prog.roots[Top(g).e] # "" /\ Top(g).ev.marshalable

\* C37 (amended): every progress event that an engine records - its LogsRoot
\* is set and the event can be marshalled - whether emitted locally or
\* forwarded from a branch, sets that engine's last_progress_at to the time
\* read at the start of the call; a call that records nothing leaves it
\* alone, and nothing else changes it.
C37_RecordedEventUpdatesLastProgress ==
    [][/\ \A g \in Goroutines :
            (CallReturns(g) /\ Records(g))
            => prog'.files[Top(g).e].lastProgressAt = Top(g).now
       /\ \A e \in Engines :
            prog'.files[e].lastProgressAt # prog.files[e].lastProgressAt
            => \E g \in Goroutines :
                 /\ At(g, "lock") /\ Top(g).e = e /\ Records(g)
                 /\ prog'.files[e].lastProgressAt = Top(g).now]_vars

\* The parent has recorded an event forwarded by branch b1 after one of its
\* own, and its last_progress_at is the time of the forwarding call, later
\* than the branch's.
C37_Witness ==
    /\ Quiescent("main") /\ Quiescent("b1")
    /\ Len(prog.files["main"].ndjson) = 2
    /\ prog.files["main"].live.branch_key = "b1"
    /\ prog.files["b1"].lastProgressAt # ZeroTime
    /\ prog.files["main"].lastProgressAt > prog.files["b1"].lastProgressAt

\* C37 (as stated): every appendProgress call on a non-nil engine updates
\* that engine's last_progress_at.
C37_EveryCallUpdatesLastProgress ==
    [][\A g \in Goroutines :
         CallReturns(g) => prog'.files[Top(g).e].lastProgressAt = Top(g).now]_vars

Holds(g, e) == prog.mu[e] = g

Waits(g, e) == At(g, "lock") /\ Top(g).e = e

\* A goroutine that waits for a mutex does not hold that mutex, and whatever
\* it holds meanwhile is the mutex of a branch while it waits for the
\* parent's.
LockOrder ==
    \A g \in Goroutines : \A e \in Engines :
        Waits(g, e) =>
            /\ ~Holds(g, e)
            /\ \A h \in Engines : Holds(g, h) => (h \in Branches /\ e = "main")

\* C40: forwarding progress from branch engines to the parent cannot
\* deadlock or block a run forever: a branch calls its sink while it holds
\* its own progress lock and the sink takes the parent's, no execution takes
\* the two locks in the opposite order or re-enters one it holds, and every
\* appendProgress call returns.
C40_ForwardingNeverBlocks ==
    /\ []LockOrder
    /\ \A g \in Goroutines : InCall(g) ~> ~InCall(g)

\* Branch b1 waits for the parent's progress lock, held by branch b2's
\* forwarding call, while it holds its own.
C40_Witness ==
    /\ Waits("b1", "main")
    /\ Holds("b1", "b1")
    /\ Holds("b2", "main")
    /\ Holds("b2", "b2")

\* ------------------------------------------------------------------------
\* LocalExecutionEnvironment.ExecCommand: one command, its process group,
\* the goroutine that waits for it, and the signals sent on cancellation or
\* timeout.  Time is counted in seconds.

MaxProcClock == 6

MaxTimeout == 2

\* time.After(2 * time.Second) after SIGTERM and after SIGKILL.
GracePeriod == 2

SIGTERM == "SIGTERM"

SIGKILL == "SIGKILL"

\* syscall.Kill(-pid, syscall.SIGTERM): the signal goes to the whole group.
terminateProcessGroup(signals) == Append(signals, SIGTERM)

\* syscall.Kill(-pid, syscall.SIGKILL)
killProcessGroup(signals) == Append(signals, SIGKILL)

timerFired_atOnce(since, d, clock) == TRUE

\* <-time.After(d), started at since.
timerFired(since, d, clock) == clock >= since + d

\* The exit code ExecCommand reports.
exitCodeOf(waitErr, code, timedOut) ==
    IF waitErr = "" THEN 0
    ELSE IF waitErr = "exit" THEN code
    ELSE IF timedOut THEN 124
    ELSE 1

\* cmd.Start() succeeded and the goroutine that calls cmd.Wait() is started.
\* The command may ignore SIGTERM (stubborn), and may leave members of its
\* group behind that hold its output open (orphans).
InitProc ==
    /\ InitEngine({"retrygate"})
    /\ default_max_retry = 0
    /\ stageStatus = NoStatus
    /\ fallbackFile = [k \in 1..2 |-> NoStatus]
    /\ ingest = IngestIdle
    /\ heartbeat = HeartbeatIdle
    /\ stageLog = <<>>
    /\ UnitsIdleExcept("proc")
    /\ \E stubborn \in BOOLEAN, orphans \in BOOLEAN, t \in 1..MaxTimeout, code \in 0..1 :
         proc = [pc |-> "select", alive |-> TRUE, orphans |-> orphans,
                 stubborn |-> stubborn, code |-> code, waited |-> FALSE,
                 done |-> FALSE, received |-> FALSE, ctxDone |-> FALSE,
                 clock |-> 0, timeout |-> t, termAt |-> 0, killAt |-> 0,
                 signals |-> <<>>, timedOut |-> FALSE, waitErr |-> "",
                 exitCode |-> 0]

\* The command exits: on its own or on SIGTERM unless it is stubborn, and
\* in any case once SIGKILL was sent.
ProcExit ==
    /\ proc.pc # "idle"
    /\ proc.alive
    /\ ~proc.stubborn \/ (Len(proc.signals) = 2)
    /\ proc' = [proc EXCEPT !.alive = FALSE]
    /\ OnlyUnit("proc")

\* The members of the group left behind exit and close the output.
ProcOrphansExit ==
    /\ proc.pc # "idle"
    /\ proc.orphans
    /\ proc' = [proc EXCEPT !.orphans = FALSE]
    /\ OnlyUnit("proc")

\* go func() { done <- cmd.Wait() }(): Wait returns once the command has
\* exited and its output is closed.
ProcWait ==
    /\ proc.pc # "idle"
    /\ ~proc.waited
    /\ ~proc.alive
    /\ ~proc.orphans
    /\ proc' = [proc EXCEPT !.waited = TRUE, !.done = TRUE]
    /\ OnlyUnit("proc")

\* The caller's context is canceled.
ProcCancel ==
    /\ proc.pc = "select"
    /\ ~proc.ctxDone
    /\ proc' = [proc EXCEPT !.ctxDone = TRUE]
    /\ OnlyUnit("proc")

\* A second passes.
ProcTick ==
    /\ proc.pc \in {"select", "grace", "drain"}
    /\ proc.clock < MaxProcClock
    /\ proc' = [proc EXCEPT !.clock = @ + 1]
    /\ OnlyUnit("proc")

\* The first select: any case that is ready may be taken.
ProcSelect ==
    /\ proc.pc = "select"
    /\ \/ /\ proc.ctxDone
          /\ proc' = [proc EXCEPT !.timedOut = TRUE, !.waitErr = "canceled",
                                  !.pc = "term"]
       \/ /\ proc.done
          /\ proc' = [proc EXCEPT !.done = FALSE, !.received = TRUE,
                                  !.waitErr = IF proc.code = 0 THEN "" ELSE "exit",
                                  !.pc = "exit"]
       \/ /\ timerFired(0, proc.timeout, proc.clock)
          /\ proc' = [proc EXCEPT !.timedOut = TRUE, !.waitErr = "deadline",
                                  !.pc = "term"]
    /\ OnlyUnit("proc")

\* if timedOut { terminateProcessGroup(cmd.Process.Pid)
ProcTerminate ==
    /\ proc.pc = "term"
    /\ proc' = [proc EXCEPT !.signals = terminateProcessGroup(@),
                            !.termAt = proc.clock, !.pc = "grace"]
    /\ OnlyUnit("proc")

\* The select after SIGTERM: the command's exit, or two seconds and then
\* killProcessGroup.
ProcGrace ==
    /\ proc.pc = "grace"
    /\ \/ /\ proc.done
          /\ proc' = [proc EXCEPT !.done = FALSE, !.received = TRUE, !.pc = "exit"]
       \/ /\ timerFired(proc.termAt, GracePeriod, proc.clock)
          /\ proc' = [proc EXCEPT !.signals = killProcessGroup(@),
                                  !.killAt = proc.clock, !.pc = "drain"]
    /\ OnlyUnit("proc")

\* The select after SIGKILL: wait for Wait() for two more seconds at most.
ProcDrain ==
    /\ proc.pc = "drain"
    /\ \/ /\ proc.done
          /\ proc' = [proc EXCEPT !.done = FALSE, !.received = TRUE, !.pc = "exit"]
       \/ /\ timerFired(proc.killAt, GracePeriod, proc.clock)
          /\ proc' = [proc EXCEPT !.pc = "exit"]
    /\ OnlyUnit("proc")

\* The exit code is computed and ExecCommand returns.
ProcReturn ==
    /\ proc.pc = "exit"
    /\ proc' = [proc EXCEPT !.exitCode = exitCodeOf(proc.waitErr, proc.code, proc.timedOut),
                            !.pc = "returned"]
    /\ OnlyUnit("proc")

NextProc ==
    \/ ProcExit
    \/ ProcOrphansExit
    \/ ProcWait
    \/ ProcCancel
    \/ ProcTick
    \/ ProcSelect
    \/ ProcTerminate
    \/ ProcGrace
    \/ ProcDrain
    \/ ProcReturn

SpecProc == InitProc /\ [][NextProc]_vars

\* The signal sent by a step, if any, is SIGTERM as the first signal of a
\* call that was canceled or timed out, or SIGKILL as the second.
TermThenKill ==
    proc'.signals # proc.signals =>
        \/ /\ proc.signals = <<>>
           /\ proc'.signals = << SIGTERM >>
           /\ proc.timedOut
        \/ /\ proc.signals = << SIGTERM >>
           /\ proc'.signals = << SIGTERM, SIGKILL >>

\* C35: when a running subprocess must be stopped because of cancellation
\* or timeout, its process group first receives SIGTERM; SIGKILL is sent
\* only after SIGTERM, only when the grace period has elapsed since SIGTERM,
\* and only while ExecCommand has not received the result of cmd.Wait().
C35_TermThenKillAfterGrace ==
    [][ /\ TermThenKill
        /\ (Len(proc'.signals) = 2 /\ Len(proc.signals) = 1) =>
              /\ proc.clock >= proc.termAt + GracePeriod
              /\ ~proc.received ]_vars

\* The command ignored SIGTERM, SIGKILL followed after the grace period,
\* and ExecCommand has returned.
C35_Witness ==
    /\ proc.pc = "returned"
    /\ proc.signals = << SIGTERM, SIGKILL >>
    /\ proc.stubborn
    /\ proc.exitCode = 124

\* C35 as stated: SIGKILL is sent only if the process has not exited when
\* the grace period ends.
C35_KillOnlyIfNotExited ==
    [][ /\ TermThenKill
        /\ (Len(proc'.signals) = 2 /\ Len(proc.signals) = 1) =>
              /\ proc.clock >= proc.termAt + GracePeriod
              /\ proc.alive ]_vars

\* ------------------------------------------------------------------------
\* runtime.WriteJSONAtomicFile: one destination in its directory, the
\* temporary file of the call in progress, and a reader of the destination.
\* A file is absent or holds a value, whole or cut short.

MaxWrites == 2

Absent == [exists |-> FALSE, value |-> "", whole |-> TRUE]

Whole(v) == [exists |-> TRUE, value |-> v, whole |-> TRUE]

Partial(v) == [exists |-> TRUE, value |-> v, whole |-> FALSE]

DestPath == "final.json"

TempPath == ".tmp-1.json"

Paths == {DestPath, TempPath}

\* The values written: "bad" is one that json.MarshalIndent rejects.
Artifacts == {"a", "b", "bad"}

createTemp_inPlace(path) == path

\* os.CreateTemp(filepath.Dir(path), ".tmp-*.json"): a fresh name in the
\* directory of the destination.
createTemp(path) == TempPath

\* os.Remove(tmpName) in the deferred function.
removeTemp(files, tmpName) ==
    IF tmpName = "" THEN files ELSE [files EXCEPT ![tmpName] = Absent]

\* os.Rename(tmpName, path)
rename(files, from, to) ==
    IF from = to THEN files
    ELSE [files EXCEPT ![to] = files[from], ![from] = Absent]

\* The directory before a write: the destination is absent or holds an
\* earlier artifact, whole.
InitFs ==
    /\ InitEngine({"retrygate"})
    /\ default_max_retry = 0
    /\ stageStatus = NoStatus
    /\ fallbackFile = [k \in 1..2 |-> NoStatus]
    /\ ingest = IngestIdle
    /\ heartbeat = HeartbeatIdle
    /\ stageLog = <<>>
    /\ UnitsIdleExcept("fs")
    /\ \E prev \in {Absent, Whole("old")} :
         fs = [pc |-> "ready",
               files |-> [p \in Paths |-> IF p = DestPath THEN prev ELSE Absent],
               before |-> prev, v |-> "", tmpName |-> "", err |-> "",
               seen |-> {}, left |-> MaxWrites]

\* WriteJSONAtomicFile(path, v) is called.
FsCall ==
    /\ fs.pc \in {"ready", "returned"}
    /\ fs.left > 0
    /\ \E v \in Artifacts :
         fs' = [fs EXCEPT !.pc = "mkdir", !.v = v, !.tmpName = "", !.err = "",
                          !.before = fs.files[DestPath], !.left = @ - 1]
    /\ OnlyUnit("fs")

\* A step of the call fails: the error is returned through the deferred
\* function.
Fail(step) == [fs EXCEPT !.err = step, !.pc = "defer"]

\* os.MkdirAll(filepath.Dir(path), 0o755)
FsMkdirAll ==
    /\ fs.pc = "mkdir"
    /\ \/ fs' = [fs EXCEPT !.pc = "create"]
       \/ fs' = Fail("mkdir")
    /\ OnlyUnit("fs")

\* os.CreateTemp: the temporary file exists and is empty; tmpName is set and
\* the deferred removal is armed.
FsCreateTemp ==
    /\ fs.pc = "create"
    /\ \/ LET name == createTemp(DestPath)
          IN  fs' = [fs EXCEPT !.files[name] = Partial(""), !.tmpName = name,
                               !.pc = "marshal"]
       \/ fs' = Fail("create")
    /\ OnlyUnit("fs")

\* json.MarshalIndent(v, "", "  ")
FsMarshal ==
    /\ fs.pc = "marshal"
    /\ IF fs.v = "bad" THEN fs' = Fail("marshal")
       ELSE fs' = [fs EXCEPT !.pc = "write"]
    /\ OnlyUnit("fs")

\* tmp.Write(b): all of b, or an error after some of it or none.
FsWrite ==
    /\ fs.pc = "write"
    /\ \/ fs' = [fs EXCEPT !.files[fs.tmpName] = Whole(fs.v), !.pc = "sync"]
       \/ fs' = [Fail("write") EXCEPT !.files[fs.tmpName] = Partial(fs.v)]
       \/ fs' = Fail("write")
    /\ OnlyUnit("fs")

\* tmp.Sync()
FsSync ==
    /\ fs.pc = "sync"
    /\ \/ fs' = [fs EXCEPT !.pc = "close"]
       \/ fs' = Fail("sync")
    /\ OnlyUnit("fs")

\* tmp.Close()
FsClose ==
    /\ fs.pc = "close"
    /\ \/ fs' = [fs EXCEPT !.pc = "rename"]
       \/ fs' = Fail("close")
    /\ OnlyUnit("fs")

\* os.Rename(tmpName, path); on success tmpName = "" disarms the removal.
FsRename ==
    /\ fs.pc = "rename"
    /\ \/ fs' = [fs EXCEPT !.files = rename(@, fs.tmpName, DestPath),
                           !.tmpName = "", !.pc = "defer"]
       \/ fs' = Fail("rename")
    /\ OnlyUnit("fs")

\* The deferred function runs and the call returns err.
FsReturn ==
    /\ fs.pc = "defer"
    /\ fs' = [fs EXCEPT !.files = removeTemp(@, fs.tmpName), !.pc = "returned"]
    /\ OnlyUnit("fs")

\* Another process reads the destination path.
FsRead ==
    /\ fs.pc # "idle"
    /\ fs.files[DestPath] \notin fs.seen
    /\ fs' = [fs EXCEPT !.seen = @ \cup {fs.files[DestPath]}]
    /\ OnlyUnit("fs")

NextFs ==
    \/ FsCall
    \/ FsMkdirAll
    \/ FsCreateTemp
    \/ FsMarshal
    \/ FsWrite
    \/ FsSync
    \/ FsClose
    \/ FsRename
    \/ FsReturn
    \/ FsRead

SpecFs == InitFs /\ [][NextFs]_vars

\* C36: writing a JSON artifact is atomic: a reader never sees a partially
\* written file at the destination path, a call that has returned an error
\* has left the destination with the content it had before the call, a call
\* that has returned nil has left the whole new value there, and no
\* temporary file is left behind when the call has returned.
C36_AtomicWrite ==
    /\ \A f \in fs.seen : f.whole
    /\ fs.pc # "idle" => fs.files[DestPath].whole
    /\ fs.pc = "returned" =>
          /\ fs.files[TempPath] = Absent
          /\ fs.err # "" => fs.files[DestPath] = fs.before
          /\ fs.err = "" => fs.files[DestPath] = Whole(fs.v)

\* The second write failed after part of the value was written: the reader
\* has seen the first value, and the destination still holds it.
C36_Witness ==
    /\ fs.pc = "returned"
    /\ fs.err = "write"
    /\ fs.left = 0
    /\ fs.before = Whole("a")
    /\ fs.v = "b"
    /\ Whole("a") \in fs.seen

\* ------------------------------------------------------------------------
\* runstate.LoadSnapshot: the artifacts of a logs root and the process table
\* as the call finds them, and the snapshot or error it returns.

StateUnknown == "unknown"

StateRunning == "running"

StateSuccess == "success"

StateFail == "fail"

\* final.json: absent, not JSON, or a document with this status field.
FinalDocs == {"absent", "malformed", "success", " FAIL", "running", ""}

\* live.json: absent, not JSON, or an event.
LiveDocs == {"absent", "malformed", "event"}

\* progress.ndjson: absent, without a non-empty line, or with a last
\* non-empty line that is an event or is not JSON.
ProgressDocs == {"absent", "empty", "malformed", "event"}

\* run.pid: absent, empty, not a positive integer, or a pid.
PIDDocs == {"absent", "empty", "garbage", "pid"}

\* The process the pid names: none, one of the caller's, one of another
\* user (kill(pid, 0) gives EPERM), or a zombie.
Processes == {"none", "live", "foreign", "zombie"}

\* strings.ToLower(strings.TrimSpace(doc.Status))
normalizeStatus(status) ==
    IF status = " FAIL" THEN "fail" ELSE status

NewSnapshot == [err |-> "", State |-> StateUnknown, LastEvent |-> "",
                PID |-> 0, PIDAlive |-> FALSE]

applyFinalOutcome(s, doc) ==
    IF doc = "absent" THEN s
    ELSE IF doc = "malformed" THEN [s EXCEPT !.err = "decode final.json"]
    ELSE IF normalizeStatus(doc) = StateSuccess THEN [s EXCEPT !.State = StateSuccess]
    ELSE IF normalizeStatus(doc) = StateFail THEN [s EXCEPT !.State = StateFail]
    ELSE s

applyLiveOrProgress(s, live, progressFile) ==
    IF live = "malformed" THEN [s EXCEPT !.err = "decode live.json"]
    ELSE IF live = "event" THEN [s EXCEPT !.LastEvent = "live"]
    ELSE IF progressFile = "malformed" THEN [s EXCEPT !.err = "decode progress.ndjson"]
    ELSE IF progressFile = "event" THEN [s EXCEPT !.LastEvent = "progress"]
    ELSE s

pidZombie(process) == process = "zombie"

pidAlive_zombie(process) == process # "none"

\* Not a zombie, and kill(pid, 0) succeeds or fails with EPERM.
pidAlive(process) ==
    IF pidZombie(process) THEN FALSE ELSE process \in {"live", "foreign"}

applyPIDFile(s, pidFile, process, tolerateParseErrors) ==
    IF pidFile = "absent" THEN s
    ELSE IF pidFile = "empty" THEN
        IF tolerateParseErrors THEN s ELSE [s EXCEPT !.err = "empty pid"]
    ELSE IF pidFile = "garbage" THEN
        IF tolerateParseErrors THEN s ELSE [s EXCEPT !.err = "invalid pid"]
    ELSE [s EXCEPT !.PID = 1, !.PIDAlive = pidAlive(process)]

IsTerminalState(state) == state \in {StateSuccess, StateFail}

LoadSnapshot(doc, live, progressFile, pidFile, process) ==
    LET s1 == applyFinalOutcome(NewSnapshot, doc)
        terminal == IsTerminalState(s1.State)
        s2 == IF terminal THEN s1 ELSE applyLiveOrProgress(s1, live, progressFile)
        s3 == applyPIDFile(s2, pidFile, process, terminal)
    IN  IF s1.err # "" THEN s1
        ELSE IF s2.err # "" THEN s2
        ELSE IF s3.err # "" THEN s3
        ELSE IF s3.State = StateUnknown /\ s3.PIDAlive
             THEN [s3 EXCEPT !.State = StateRunning]
        ELSE s3

\* A logs root with any combination of artifacts, before the call.
InitSnap ==
    /\ InitEngine({"retrygate"})
    /\ default_max_retry = 0
    /\ stageStatus = NoStatus
    /\ fallbackFile = [k \in 1..2 |-> NoStatus]
    /\ ingest = IngestIdle
    /\ heartbeat = HeartbeatIdle
    /\ stageLog = <<>>
    /\ UnitsIdleExcept("snap")
    /\ \E doc \in FinalDocs, live \in LiveDocs, pf \in ProgressDocs,
          pidFile \in PIDDocs, process \in Processes :
         snap = [pc |-> "ready", final |-> doc, live |-> live, progress |-> pf,
                 pidFile |-> pidFile, process |-> process, ret |-> NewSnapshot]

\* LoadSnapshot(logsRoot) is called and returns.
SnapLoad ==
    /\ snap.pc = "ready"
    /\ snap' = [snap EXCEPT !.pc = "loaded",
                            !.ret = LoadSnapshot(snap.final, snap.live, snap.progress,
                                                 snap.pidFile, snap.process)]
    /\ OnlyUnit("snap")

NextSnap == SnapLoad

SpecSnap == InitSnap /\ [][NextSnap]_vars

\* final.json holds a document with status success or fail.
FinalIsTerminal == normalizeStatus(snap.final) \in {StateSuccess, StateFail}

\* run.pid names a process that is there and is not a zombie.
PIDNamesLiveProcess == snap.pidFile = "pid" /\ snap.process \in {"live", "foreign"}

\* An artifact that LoadSnapshot has to parse without a terminal final.json
\* is malformed.
MalformedArtifact ==
    \/ snap.final = "malformed"
    \/ snap.live = "malformed"
    \/ snap.live = "absent" /\ snap.progress = "malformed"
    \/ snap.pidFile \in {"empty", "garbage"}

\* C39: the snapshot reports the state from final.json whenever final.json
\* has status success or fail, whatever live.json, progress.ndjson, run.pid
\* and the process table hold; without a terminal final.json LoadSnapshot
\* returns an error exactly when an artifact it parses is malformed, and
\* otherwise the state is running exactly when run.pid names a live,
\* non-zombie process and unknown when it does not.
C39_SnapshotState ==
    snap.pc = "loaded" =>
        IF FinalIsTerminal
        THEN /\ snap.ret.err = ""
             /\ snap.ret.State = normalizeStatus(snap.final)
        ELSE /\ snap.ret.err # "" <=> MalformedArtifact
             /\ snap.ret.err = "" =>
                  snap.ret.State = IF PIDNamesLiveProcess THEN StateRunning
                                   ELSE StateUnknown

\* final.json says fail while live.json is not JSON and run.pid names a
\* live process: the snapshot says fail.
C39_Witness ==
    /\ snap.pc = "loaded"
    /\ snap.final = " FAIL"
    /\ snap.live = "malformed"
    /\ PIDNamesLiveProcess
    /\ snap.ret.State = StateFail

\* C39 as stated: without a terminal final.json the state is running
\* exactly when run.pid names a live, non-zombie process, and unknown
\* otherwise.
C39_RunningIffLivePID ==
    snap.pc = "loaded" =>
        IF FinalIsTerminal
        THEN /\ snap.ret.err = ""
             /\ snap.ret.State = normalizeStatus(snap.final)
        ELSE /\ snap.ret.err = ""
             /\ snap.ret.State = IF PIDNamesLiveProcess THEN StateRunning
                                  ELSE StateUnknown

\* ------------------------------------------- branch traversal bound (C38)

\* C38: a branch subgraph traversal terminates without external
\* cancellation, also on a graph with a cycle inside the branch that is
\* taken on success: as long as nothing is canceled, the branch a1 -> a1 (on
\* success) stays below the exploration cap on node executions.
C38_BranchExecutionsBounded ==
    (graph = "branchcycle" /\ canceled = "none" /\ ~branchCancel) =>
        steps["b1"] < MaxSteps

============================================================================
